---- MODULE Spec2Model ----
(***************************************************************************)
(* A model of the voice-ai-pipeline repository:                            *)
(*   - MCPClient.send_to_copilot (voice_ai_pipeline/mcp_client.py): the    *)
(*     retry loop with exponential backoff and the session context;        *)
(*   - AutoNoteProcessor (tts_ai_pipeline/auto_note.py): construction      *)
(*     (backend selection), process_audio_file and process_live_recording; *)
(*   - OneNoteManager (voice_ai_pipeline/onenote_manager.py): the get-or-  *)
(*     create operations and create_transcription_note against the Graph   *)
(*     service;                                                            *)
(*   - LocalNoteManager (voice_ai_pipeline/local_notes.py): notebooks,     *)
(*     sections, notes and the metadata registry.                          *)
(*                                                                         *)
(* Python values.  A text (str) is a sequence of tokens: a transcript or a *)
(* summary is a sequence of one-character tokens, a message is a sequence  *)
(* holding the message as one token.  The empty str is << >>.  Python's    *)
(* None is the one-token sequence None below, whose token is no character. *)
(***************************************************************************)
EXTENDS Integers, Sequences, FiniteSets, TLC

VARIABLES
    \* ---- MCPClient ----
    max_retries,      \* self.max_retries
    session_context,  \* self.session_context
    sendPc,           \* position of send_to_copilot: idle, sending, retrying, succeeded, failed
    attempt,          \* the loop variable of "for attempt in range(self.max_retries)"
    outcomes,         \* what each requests.post of this send came back with, in order
    slept,            \* the arguments of the time.sleep calls of this send, in order
    sendPrompt,       \* the prompt_type of the prompt being sent
    sendResult,       \* the value returned, or the message of the exception raised
    envelope,         \* the request _prepare_mcp_request built for the last send
    lastSessionOp,    \* the last writer of session_context: construct, update or clear
    cancel,           \* the caller's cancellation of this send: how, where, attempts so far
    \* ---- AutoNoteProcessor ----
    config,           \* note_storage, MSGRAPH_AVAILABLE, whether a client id is configured
    components,       \* which of microphone, summarizer, onenote, local_notes are set
    initError,        \* the step of _initialize_components that raised, or "none"
    op,               \* the public operation running: none, file, live
    pc,               \* its position
    create_note,      \* its create_note argument
    results,          \* the results dict (the value returned once pc = "returned")
    transcription,    \* local variable transcription
    summary,          \* local variable summary (what _summarize_text returned)
    calls,            \* the collaborator calls of this run, in order
    stepKinds,        \* how the transcription and the summarization collaborator answered
    backendReturn,    \* what the backend returned in this run (a location, or None)
    noteSummary,      \* the summary handed to the backend in this run
    tempFiles,        \* temporary audio files of process_live_recording on disk
    created,          \* the temporary audio files this run has created so far
    elapsed,          \* time.time() - start_time
    \* ---- OneNoteManager ----
    onenoteStore,     \* the notebooks, sections and pages the Graph service holds
    returned,         \* the identifiers get_or_create_notebook / _section have returned
    lastNote,         \* the last create_transcription_note: its steps and its result
    \* ---- LocalNoteManager ----
    metadata,         \* self.metadata: note_count and the notebooks registry
    metadataFile,     \* metadata.json as last saved
    directories,      \* the notebook and section directories under notes_dir
    noteFiles,        \* the note files on disk: path and the call that wrote the content
    second,           \* datetime.now() at the resolution of the file names, one second
    noteCalls,        \* the create_note calls that wrote a file: arguments, time, path
    clock,            \* datetime.now()
    notebookPaths,    \* the (name, path) pairs create_notebook has returned
    registered,       \* per registry key: when it was first registered, notes counted since
    \* ---- MCPClient.create_prompt_from_transcription ----
    prompt_templates, \* self.prompt_templates
    prompt,           \* what the last create_prompt_from_transcription gave
    previous,         \* what the create_prompt_from_transcription before that gave
    \* ---- several LocalNoteManager instances on one base directory ----
    stores,           \* per instance: whether it is constructed, and its self.metadata
    lastSaver,        \* the instance whose _save_metadata ran last (0: none)
    \* ---- LocalNoteManager._sanitize_filename ----
    slugged,          \* the last _sanitize_filename call: its argument and what it gave
    \* ---- several send_to_copilot calls running on one MCPClient ----
    senders,          \* per calling thread: its position, its prompt type, the response it got
    lastWriter        \* the thread whose write each key of session_context holds (0: none)

clientVars == <<max_retries, session_context, sendPc, attempt, outcomes, slept, sendPrompt,
               sendResult, envelope, lastSessionOp, cancel>>
orchVars == <<config, components, initError>>
runVars == <<op, pc, create_note, results, transcription, summary, calls, stepKinds,
             backendReturn,
             noteSummary, tempFiles, created, elapsed>>
remoteVars == <<onenoteStore, returned, lastNote>>
localVars == <<metadata, metadataFile, directories, noteFiles, second, noteCalls, clock,
               notebookPaths,
               registered>>
promptVars == <<prompt_templates, prompt, previous>>
senderVars == <<senders, lastWriter>>
sharedVars == <<stores, lastSaver, slugged>>
storeVars == <<remoteVars, localVars, promptVars, senderVars, sharedVars>>
vars == <<clientVars, orchVars, runVars, storeVars>>

-----------------------------------------------------------------------------
(* Bounds of the model *)

\* the largest max_retries a client is constructed with
MaxRetriesBound == 3
\* the longest short transcript
MaxShortLen == 2
\* how far the longest transcript exceeds the truncation limit
MaxExtra == 2
\* the most identifiers the Graph service hands out
MaxRemoteIds == 3
\* the most calls made on a local note manager
MaxLocalCalls == 3
\* the most threads that send on one client at the same time
MaxSenders == 2
\* the most local note managers constructed on one base directory
MaxStores == 2
\* the longest short name given to _sanitize_filename, and the longest tail of a long one
MaxNameLen == 3

(* Constants of the program *)

\* transcription[:500] + "..." if len(transcription) > 500
SummaryLimit == 500
\* "if len(safe_name) > 100: safe_name = safe_name[:100]"
SafeNameLimit == 100

-----------------------------------------------------------------------------
(* Python values *)

None == <<"<None>">>

\* bool(x) of an Optional[str]
Truthy(x) == x # None /\ x # << >>

Chars == <<"a", "b", "c">>

\* the text of length n whose i-th character is Chars[(i + phase) % 3 + 1]
MkText(n, phase) == [i \in 1..n |-> Chars[((i + phase) % 3) + 1]]

\* text[:n]
Prefix(text, n) == SubSeq(text, 1, IF Len(text) < n THEN Len(text) ELSE n)

Ellipsis == <<".", ".", ".">>


-----------------------------------------------------------------------------
(* MCPClient: voice_ai_pipeline/mcp_client.py *)

PromptTypes == {"question", "command", "code_request", "general"}

NoBody == [has_conversation_id |-> FALSE, conversation_id |-> None, result |-> << >>]

\* decoded JSON bodies of a response: with or without a conversation_id
Bodies ==
    {NoBody}
    \cup {[has_conversation_id |-> TRUE, conversation_id |-> <<c>>, result |-> <<"o", "k">>] :
            c \in {"conv-1", "conv-2"}}

\* what one requests.post can come back with: a response with a status code, or a
\* requests.RequestException (connection error, timeout)
PostOutcomes ==
    {[kind |-> "response", status |-> 200, body |-> b] : b \in Bodies}
    \cup {[kind |-> "response", status |-> s, body |-> NoBody] : s \in {204, 503}}
    \cup {[kind |-> "RequestException", status |-> 0, body |-> NoBody]}

EmptySession == [conversation_id |-> None, last_interaction |-> None, user_preferences |-> << >>]

\* the conversation part of a request: params.conversation_id is set only when the
\* session holds a truthy conversation id
PrepareMcpRequestBare(ctx) == [has_conversation_id |-> FALSE, conversation_id |-> None]

PrepareMcpRequest(ctx) ==
    IF Truthy(ctx.conversation_id)
      THEN [has_conversation_id |-> TRUE, conversation_id |-> ctx.conversation_id]
      ELSE [has_conversation_id |-> FALSE, conversation_id |-> None]

\* no request built yet
NoEnvelope == [has_conversation_id |-> FALSE, conversation_id |-> None]

\* get_session_info: the session, the number of keys starting with "interaction_",
\* and whether there is a last interaction to take the time of the last activity from
GetSessionInfo(ctx) ==
    [conversation_id |-> ctx.conversation_id,
     last_interaction |-> ctx.last_interaction,
     user_preferences |-> ctx.user_preferences,
     total_interactions |->
        Cardinality({k \in {"conversation_id", "last_interaction", "user_preferences"} :
                        Len(k) >= 12 /\ SubSeq(k, 1, 12) = "interaction_"}),
     has_last_activity |-> Truthy(ctx.last_interaction)]

\* mutant of ClearedSession: the conversation id survives the clear
ClearedSessionKeepsConversation(ctx) == [EmptySession EXCEPT !.conversation_id = ctx.conversation_id]

\* the value clear_session assigns to self.session_context
ClearedSession(ctx) == EmptySession

\* mutant of BackoffDelay: the delay counted from the one-based attempt number
BackoffDelayOneBased(k) == 2 ^ (k + 1)

\* time.sleep(2 ** attempt)
BackoffDelay(k) == 2 ^ k

\* mutant of UpdateSessionContext: the conversation id is taken from the response
\* whether or not the response has one
UpdateSessionContextOverwrites(ctx, prompt_type, body) ==
    [ctx EXCEPT
        !.conversation_id = body.conversation_id,
        !.last_interaction = <<prompt_type, Len(body.result)>>]

\* the first statement of _update_session_context: the conversation id, if the
\* response has one
WriteConversationId(ctx, body) ==
    [ctx EXCEPT
        !.conversation_id = IF body.has_conversation_id THEN body.conversation_id ELSE @]

\* the second statement of _update_session_context: the last interaction
WriteLastInteraction(ctx, prompt_type, body) ==
    [ctx EXCEPT !.last_interaction = <<prompt_type, Len(body.result)>>]

\* _update_session_context(prompt, response), run by one thread alone
UpdateSessionContext(ctx, prompt_type, body) ==
    WriteLastInteraction(WriteConversationId(ctx, body), prompt_type, body)

\* the ways a caller of this repository gives up a send: an interrupt raised in the thread
\* that runs send_to_copilot (KeyboardInterrupt, which "except requests.RequestException"
\* does not catch), or the cancellation of the task that awaits send_to_copilot while it
\* runs in an executor thread (interface.py), which the loop has no statement to notice
CancelKinds == {"interrupt", "task"}

NoCancel == [requested |-> FALSE, kind |-> "none", during |-> "none", attempts |-> 0]

\* the threads that call send_to_copilot on the one client
Senders == 1..MaxSenders

SenderPromptTypes == {"question", "command"}

NoSender == [pc |-> "idle", prompt_type |-> "general", body |-> NoBody]

NoWriter == [conversation_id |-> 0, last_interaction |-> 0]

ClientInit ==
    /\ max_retries \in 0..MaxRetriesBound
    /\ session_context = EmptySession
    /\ sendPc = "idle"
    /\ attempt = 0
    /\ outcomes = << >>
    /\ slept = << >>
    /\ sendPrompt = "general"
    /\ sendResult = None
    /\ envelope = NoEnvelope
    /\ lastSessionOp = "construct"
    /\ cancel = NoCancel
    /\ senders = [t \in Senders |-> NoSender]
    /\ lastWriter = NoWriter

\* send_to_copilot is called: the request is prepared and the loop is entered; with
\* max_retries = 0 the loop body never runs and the final raise is reached
SendToCopilot(prompt_type) ==
    /\ sendPc = "idle"
    /\ sendPrompt' = prompt_type
    /\ attempt' = 0
    /\ outcomes' = << >>
    /\ slept' = << >>
    /\ IF max_retries = 0
         THEN /\ sendPc' = "failed"
              /\ sendResult' = <<"MCP request failed after all retry attempts">>
         ELSE /\ sendPc' = "sending"
              /\ sendResult' = None
    /\ envelope' = PrepareMcpRequest(session_context)
    /\ cancel' = NoCancel
    /\ UNCHANGED <<max_retries, session_context, lastSessionOp>>
    /\ UNCHANGED <<orchVars, runVars, storeVars>>

SessionAfterEveryResponse(ctx, prompt_type, o) ==
    IF o.kind = "response" THEN UpdateSessionContext(ctx, prompt_type, o.body) ELSE ctx

\* the session after one iteration: _update_session_context is called in the branch of
\* "if response.status_code == 200" only
SessionAfter(ctx, prompt_type, o) ==
    IF o.kind = "response" /\ o.status = 200
      THEN UpdateSessionContext(ctx, prompt_type, o.body)
      ELSE ctx

LastAttemptNever(a, n) == a = n

\* "if attempt == self.max_retries - 1": the failed attempt was the last one of the loop
LastAttempt(a, n) == a = n - 1

\* one iteration of the loop: requests.post and what follows it
Attempt(o) ==
    /\ sendPc = "sending"
    /\ outcomes' = Append(outcomes, o)
    /\ session_context' = SessionAfter(session_context, sendPrompt, o)
    /\ IF o.kind = "response" /\ o.status = 200
         THEN /\ sendResult' = <<"result", o.body>>
              /\ sendPc' = "succeeded"
              /\ lastSessionOp' = "update"
              /\ UNCHANGED slept
         ELSE /\ UNCHANGED lastSessionOp
              /\ IF LastAttempt(attempt, max_retries)
                   THEN /\ sendPc' = "failed"
                        /\ sendResult' = IF o.kind = "response"
                                           THEN <<"MCP request failed with status", o.status>>
                                           ELSE <<"MCP request failed after attempts", max_retries>>
                        /\ UNCHANGED slept
                   ELSE /\ sendPc' = "retrying"
                        /\ slept' = Append(slept, BackoffDelay(attempt))
                        /\ UNCHANGED sendResult
    /\ UNCHANGED <<max_retries, attempt, sendPrompt, envelope, cancel>>
    /\ UNCHANGED <<orchVars, runVars, storeVars>>

\* time.sleep returns and the loop goes to its next iteration
NextAttempt ==
    /\ sendPc = "retrying"
    /\ attempt' = attempt + 1
    /\ sendPc' = "sending"
    /\ UNCHANGED <<max_retries, session_context, outcomes, slept, sendPrompt, sendResult,
                   envelope, lastSessionOp, cancel>>
    /\ UNCHANGED <<orchVars, runVars, storeVars>>

\* the caller cancels during a wait of the send (the post, or the backoff sleep): an
\* interrupt in the thread of the loop propagates out of send_to_copilot; the cancellation
\* of the awaiting task leaves the loop, which reads no cancellation state, running
CancelSend(kind) ==
    /\ sendPc \in {"sending", "retrying"}
    /\ ~cancel.requested
    /\ cancel' = [requested |-> TRUE, kind |-> kind, during |-> sendPc,
                  attempts |-> Len(outcomes)]
    /\ IF kind = "interrupt"
         THEN /\ sendPc' = "cancelled"
              /\ sendResult' = <<"KeyboardInterrupt">>
         ELSE UNCHANGED <<sendPc, sendResult>>
    /\ UNCHANGED <<max_retries, session_context, attempt, outcomes, slept, sendPrompt,
                   envelope, lastSessionOp>>
    /\ UNCHANGED <<orchVars, runVars, storeVars>>

\* the caller has the result (or the exception) and the client is idle again
SendDone ==
    /\ sendPc \in {"succeeded", "failed", "cancelled"}
    /\ sendPc' = "idle"
    /\ UNCHANGED <<max_retries, session_context, attempt, outcomes, slept, sendPrompt,
                   sendResult, envelope, lastSessionOp, cancel>>
    /\ UNCHANGED <<orchVars, runVars, storeVars>>

\* clear_session: the caller resets the session between two sends
ClearSession ==
    /\ sendPc = "idle"
    /\ session_context' = ClearedSession(session_context)
    /\ lastSessionOp' = "clear"
    /\ UNCHANGED <<max_retries, sendPc, attempt, outcomes, slept, sendPrompt, sendResult,
                   envelope, cancel>>
    /\ UNCHANGED <<orchVars, runVars, storeVars>>

\* ---- several threads in send_to_copilot on one client, each with a 200 response ----

\* thread t calls send_to_copilot and posts its request
ConcurrentSend(t, prompt_type) ==
    /\ senders[t].pc = "idle"
    /\ senders' = [senders EXCEPT ![t] = [pc |-> "posting", prompt_type |-> prompt_type,
                                          body |-> NoBody]]
    /\ UNCHANGED <<clientVars, lastWriter>>
    /\ UNCHANGED <<orchVars, runVars, remoteVars, localVars, promptVars, sharedVars>>

\* its requests.post returns status 200 and response.json() gives body
ConcurrentResponse(t, body) ==
    /\ senders[t].pc = "posting"
    /\ senders' = [senders EXCEPT ![t].pc = "updating", ![t].body = body]
    /\ UNCHANGED <<clientVars, lastWriter>>
    /\ UNCHANGED <<orchVars, runVars, remoteVars, localVars, promptVars, sharedVars>>

\* thread t runs the first statement of _update_session_context; nothing keeps another
\* thread from running between this statement and the next
ConcurrentWriteId(t) ==
    /\ senders[t].pc = "updating"
    /\ session_context' = WriteConversationId(session_context, senders[t].body)
    /\ lastWriter' = IF senders[t].body.has_conversation_id
                       THEN [lastWriter EXCEPT !.conversation_id = t]
                       ELSE lastWriter
    /\ senders' = [senders EXCEPT ![t].pc = "stored"]
    /\ UNCHANGED <<max_retries, sendPc, attempt, outcomes, slept, sendPrompt, sendResult,
                   envelope, lastSessionOp, cancel>>
    /\ UNCHANGED <<orchVars, runVars, remoteVars, localVars, promptVars, sharedVars>>

\* thread t runs the second statement and returns the result
ConcurrentWriteInteraction(t) ==
    /\ senders[t].pc = "stored"
    /\ session_context' = WriteLastInteraction(session_context, senders[t].prompt_type,
                                               senders[t].body)
    /\ lastWriter' = [lastWriter EXCEPT !.last_interaction = t]
    /\ senders' = [senders EXCEPT ![t].pc = "done"]
    /\ UNCHANGED <<max_retries, sendPc, attempt, outcomes, slept, sendPrompt, sendResult,
                   envelope, lastSessionOp, cancel>>
    /\ UNCHANGED <<orchVars, runVars, remoteVars, localVars, promptVars, sharedVars>>

ConcurrentNext ==
    \/ \E t \in Senders, type \in SenderPromptTypes : ConcurrentSend(t, type)
    \/ \E t \in Senders, body \in Bodies : ConcurrentResponse(t, body)
    \/ \E t \in Senders : ConcurrentWriteId(t)
    \/ \E t \in Senders : ConcurrentWriteInteraction(t)

SendNext ==
    \/ \E t \in PromptTypes : SendToCopilot(t)
    \/ \E o \in PostOutcomes : Attempt(o)
    \/ NextAttempt
    \/ \E kind \in CancelKinds : CancelSend(kind)
    \/ SendDone
    \/ ClearSession

-----------------------------------------------------------------------------
(* AutoNoteProcessor: tts_ai_pipeline/auto_note.py *)

StorageModes == {"auto", "onenote", "local"}

NoComponents == [microphone |-> FALSE, summarizer |-> FALSE, onenote |-> FALSE,
                 local_notes |-> FALSE]

\* mutant of StorageBranch: mode "onenote" falls back to the local store when the
\* remote one is not available
StorageBranchFallsBack(note_storage, msgraph, client_id) ==
    IF note_storage = "onenote" /\ msgraph /\ client_id
      THEN "onenote"
      ELSE IF note_storage \in {"local", "onenote"}
                \/ (note_storage = "auto" /\ ~(msgraph /\ client_id))
             THEN "local"
             ELSE "none"

\* the branch of "Initialize note storage" that _initialize_components takes
StorageBranch(note_storage, msgraph, client_id) ==
    IF note_storage = "onenote" /\ msgraph /\ client_id
      THEN "onenote"
      ELSE IF note_storage = "local" \/ (note_storage = "auto" /\ ~(msgraph /\ client_id))
             THEN "local"
             ELSE "none"

\* mutant of InitializeComponents: the local store is constructed as well whenever
\* the note storage is reached
InitializeComponentsAlsoLocal(note_storage, client_id, env, raises) ==
    LET branch == StorageBranch(note_storage, env.msgraph, client_id) IN
    IF env.pyaudio /\ raises.microphone
      THEN [components |-> NoComponents, initError |-> "microphone"]
    ELSE IF env.transformers /\ raises.summarizer
      THEN [components |-> [NoComponents EXCEPT !.microphone = env.pyaudio],
            initError |-> "summarizer"]
    ELSE [components |-> [microphone |-> env.pyaudio,
                          summarizer |-> env.transformers,
                          onenote |-> (branch = "onenote"),
                          local_notes |-> TRUE],
          initError |-> "none"]

\* _initialize_components: microphone, then summarizer, then note storage, inside one
\* try block, so the first constructor that raises ends the initialization.  env says
\* what is importable (pyaudio, transformers, msgraph); raises says which constructors
\* raise when called.
InitializeComponents(note_storage, client_id, env, raises) ==
    LET branch == StorageBranch(note_storage, env.msgraph, client_id) IN
    IF env.pyaudio /\ raises.microphone
      THEN [components |-> NoComponents, initError |-> "microphone"]
    ELSE IF env.transformers /\ raises.summarizer
      THEN [components |-> [NoComponents EXCEPT !.microphone = env.pyaudio],
            initError |-> "summarizer"]
    ELSE IF branch # "none" /\ raises.storage
      THEN [components |-> [NoComponents EXCEPT !.microphone = env.pyaudio,
                                                !.summarizer = env.transformers],
            initError |-> "storage"]
    ELSE [components |-> [microphone |-> env.pyaudio,
                          summarizer |-> env.transformers,
                          onenote |-> (branch = "onenote"),
                          local_notes |-> (branch = "local")],
          initError |-> "none"]

Envs == [pyaudio : BOOLEAN, transformers : BOOLEAN, msgraph : BOOLEAN]
Raises == [microphone : BOOLEAN, summarizer : BOOLEAN, storage : BOOLEAN]

\* the results dict every run starts from
DefaultResults ==
    [success |-> FALSE, transcription |-> None, summary |-> None, note_created |-> FALSE,
     processing_time |-> 0, error |-> None]

\* neither collaborator has been called in this run
NoSteps == [transcribe |-> "not called", summarize |-> "not called"]

\* no run has returned anything
NoResults == [pending |-> TRUE]

\* the transcripts the transcription service returns (stripped text, possibly empty)
Transcripts ==
    {MkText(n, 0) : n \in (0..MaxShortLen) \cup ((SummaryLimit - 1)..(SummaryLimit + MaxExtra))}

\* the message of an exception the operating system raises (an OSError)
ExcMessages == {<<"[Errno 28] No space left on device">>}

\* what microphone.transcribe_recording / record_and_transcribe come back with
TranscribeOutcomes ==
    {[kind |-> "return", value |-> t] : t \in Transcripts \cup {None}}
    \cup {[kind |-> "raise", value |-> m] : m \in ExcMessages}

\* what summarizer.summarize comes back with
SummarizeOutcomes ==
    {[kind |-> "return", value |-> t] : t \in {<< >>, <<"s", "u", "m">>}}
    \cup {[kind |-> "raise", value |-> m] : m \in ExcMessages}

\* what the active backend does: whether each step of the remote store yields an
\* identifier, and whether the local store writes the note or raises
BackendOutcomes == [notebook : BOOLEAN, section : BOOLEAN, page : BOOLEAN, local : BOOLEAN]

RemoteLocation == <<"page-id">>
LocalLocation == <<"notes/AI Transcriptions/Transcriptions/note.md">>

\* mutant of FileFallback: the suffix is added whatever the length
FileFallbackAlwaysEllipsis(t) == Prefix(t, SummaryLimit) \o Ellipsis

\* transcription[:500] + "..." if len(transcription) > 500 else transcription
FileFallback(t) == IF Len(t) > SummaryLimit THEN Prefix(t, SummaryLimit) \o Ellipsis ELSE t

\* transcription[:500] + "..."
LiveFallback(t) == Prefix(t, SummaryLimit) \o Ellipsis

\* mutant of TranscriptionFailed: the test "transcription is None"
TranscriptionIsNone(t) == t = None

\* "if not transcription"
TranscriptionFailed(t) == ~Truthy(t)

\* mutant of TranscribeAudioFile: the transcript is taken without looking at
\* self.microphone
TranscribeAudioFileUnchecked(o) == IF o.kind = "raise" THEN None ELSE o.value

\* _transcribe_audio_file: None without a microphone or when transcribe_recording raises
TranscribeAudioFile(o) ==
    IF ~components.microphone THEN None
    ELSE IF o.kind = "raise" THEN None
    ELSE o.value

\* _summarize_text: None without a summarizer or when it raises
SummarizeText(o) ==
    IF ~components.summarizer THEN None
    ELSE IF o.kind = "raise" THEN None
    ELSE o.value

\* OneNoteManager.create_transcription_note: the page identifier, or None when a step
\* yields no identifier (the later steps are then not attempted)
CreateTranscriptionNote(b) ==
    IF ~b.notebook THEN [page_id |-> None, steps |-> <<"get_or_create_notebook">>]
    ELSE IF ~b.section
      THEN [page_id |-> None, steps |-> <<"get_or_create_notebook", "get_or_create_section">>]
    ELSE [page_id |-> IF b.page THEN RemoteLocation ELSE None,
          steps |-> <<"get_or_create_notebook", "get_or_create_section", "create_note_page">>]

\* mutant of CreateNote: True is returned once the backend was called, whatever it
\* returned
CreateNoteIgnoresResult(b) ==
    IF ~components.onenote /\ ~components.local_notes
      THEN [created |-> FALSE, location |-> None, summary |-> None, calls |-> << >>]
    ELSE
      LET s == IF ~Truthy(summary) THEN FileFallback(transcription) ELSE summary
          r == CreateTranscriptionNote(b)
      IN IF components.onenote
           THEN [created |-> TRUE, location |-> r.page_id, summary |-> s,
                 calls |-> <<"_get_audio_metadata", "onenote.create_transcription_note">>
                           \o r.steps]
           ELSE [created |-> TRUE,
                 location |-> IF b.local THEN LocalLocation ELSE None,
                 summary |-> s,
                 calls |-> <<"_get_audio_metadata", "local_notes.create_note">>]

\* _create_note: what it returns, what the backend returned, the summary it handed to
\* the backend and the calls it made
CreateNote(b) ==
    IF ~components.onenote /\ ~components.local_notes
      THEN [created |-> FALSE, location |-> None, summary |-> None, calls |-> << >>]
    ELSE
      LET s == IF ~Truthy(summary) THEN FileFallback(transcription) ELSE summary
          r == CreateTranscriptionNote(b)
      IN IF components.onenote
           THEN [created |-> (r.page_id # None), location |-> r.page_id, summary |-> s,
                 calls |-> <<"_get_audio_metadata", "onenote.create_transcription_note">>
                           \o r.steps]
           ELSE [created |-> b.local,
                 location |-> IF b.local THEN LocalLocation ELSE None,
                 summary |-> s,
                 calls |-> <<"_get_audio_metadata", "local_notes.create_note">>]

HasBackend == components.onenote \/ components.local_notes

OrchInit ==
    /\ \E ns \in StorageModes, cid \in BOOLEAN, env \in Envs, raises \in Raises :
          LET init == InitializeComponents(ns, cid, env, raises) IN
          /\ config = [note_storage |-> ns, msgraph |-> env.msgraph, client_id |-> cid]
          /\ components = init.components
          /\ initError = init.initError
    /\ op = "none"
    /\ pc = "idle"
    /\ create_note = TRUE
    /\ results = NoResults
    /\ transcription = None
    /\ summary = None
    /\ calls = << >>
    /\ stepKinds = NoSteps
    /\ backendReturn = None
    /\ noteSummary = None
    /\ tempFiles = {}
    /\ created = {}
    /\ elapsed = 0

\* the entry of a run: the locals of the previous one are gone
Enter(operation, cn, res, position) ==
    /\ op = "none" /\ pc = "idle"
    /\ op' = operation
    /\ create_note' = cn
    /\ results' = res
    /\ pc' = position
    /\ transcription' = None
    /\ summary' = None
    /\ calls' = << >>
    /\ stepKinds' = NoSteps
    /\ backendReturn' = None
    /\ noteSummary' = None
    /\ elapsed' = 0
    /\ created' = {}
    /\ UNCHANGED tempFiles

\* mutant of Caught: the exception is not caught and reaches the caller
CaughtReraises(message) ==
    /\ results' = results
    /\ pc' = "raised"

\* the "except Exception as e" of the public operations
Caught(message) ==
    /\ results' = [results EXCEPT !.error = message, !.processing_time = elapsed']
    /\ pc' = "returned"

\* mutant of Succeed: a run whose note was not created is reported as failed
SucceedOnlyWithNote(res) ==
    /\ results' = [res EXCEPT !.success = res.note_created, !.processing_time = elapsed']
    /\ pc' = "returned"

\* results['success'] = True; results['processing_time'] = time.time() - start_time
Succeed(res) ==
    /\ results' = [res EXCEPT !.success = TRUE, !.processing_time = elapsed']
    /\ pc' = "returned"

(* process_audio_file *)

ProcessAudioFile(cn) ==
    /\ Enter("file", cn, DefaultResults, "transcribe")
    /\ UNCHANGED <<orchVars, clientVars, storeVars>>

\* Step 1: _transcribe_audio_file
FileTranscribe(o) ==
    /\ op = "file" /\ pc = "transcribe"
    /\ elapsed' = elapsed + 1
    /\ LET t == TranscribeAudioFile(o) IN
          /\ transcription' = t
          /\ calls' = IF components.microphone
                        THEN Append(calls, "transcribe_recording") ELSE calls
          /\ stepKinds' = IF components.microphone
                            THEN [stepKinds EXCEPT !.transcribe = o.kind] ELSE stepKinds
          /\ IF TranscriptionFailed(t)
               THEN /\ results' = [results EXCEPT !.error = <<"Failed to transcribe audio">>]
                    /\ pc' = "returned"
               ELSE /\ results' = [results EXCEPT !.transcription = t]
                    /\ pc' = "summarize"
    /\ UNCHANGED <<op, create_note, summary, backendReturn, noteSummary, tempFiles, created>>
    /\ UNCHANGED <<orchVars, clientVars, storeVars>>

\* Step 2: _summarize_text, with the truncated transcription when it yields nothing
FileSummarize(o) ==
    /\ op = "file" /\ pc = "summarize"
    /\ elapsed' = elapsed + 1
    /\ LET s == SummarizeText(o) IN
          /\ summary' = s
          /\ results' = [results EXCEPT
                            !.summary = IF Truthy(s) THEN s ELSE FileFallback(transcription)]
          /\ calls' = IF components.summarizer THEN Append(calls, "summarize") ELSE calls
          /\ stepKinds' = IF components.summarizer
                            THEN [stepKinds EXCEPT !.summarize = o.kind] ELSE stepKinds
    /\ pc' = "note"
    /\ UNCHANGED <<op, create_note, transcription, backendReturn, noteSummary, tempFiles, created>>
    /\ UNCHANGED <<orchVars, clientVars, storeVars>>

\* Step 3: _create_note when enabled and a backend is set; then success and the time
FileNote(b) ==
    /\ op = "file" /\ pc = "note"
    /\ elapsed' = elapsed + 1
    /\ IF create_note /\ HasBackend
         THEN LET n == CreateNote(b) IN
              /\ Succeed([results EXCEPT !.note_created = n.created])
              /\ backendReturn' = n.location
              /\ noteSummary' = n.summary
              /\ calls' = calls \o n.calls
         ELSE /\ Succeed(results)
              /\ UNCHANGED <<backendReturn, noteSummary, calls>>
    /\ UNCHANGED <<op, create_note, transcription, summary, stepKinds, tempFiles, created>>
    /\ UNCHANGED <<orchVars, clientVars, storeVars>>

(* process_live_recording *)

MicrophoneMissingResults ==
    [success |-> FALSE, error |-> <<"Microphone component not available">>]

ProcessLiveRecording(cn) ==
    /\ IF ~components.microphone
         THEN Enter("live", cn, MicrophoneMissingResults, "returned")
         ELSE Enter("live", cn, DefaultResults, "capture")
    /\ UNCHANGED <<orchVars, clientVars, storeVars>>

TempFile == "tmp.wav"
RecorderTempFile == "rec.wav"

\* mutant of FinallyUnlink: the finally block removes nothing
FinallyUnlinkNothing(files, name) == files

\* "finally: if os.path.exists(temp_filename): os.unlink(temp_filename)"
FinallyUnlink(files, name) == files \ {name}

\* microphone.record_and_transcribe, first half: start_recording (the capture wait),
\* which returns False when it cannot record, then NamedTemporaryFile(delete=False),
\* which can raise an OSError
LiveCapture(started, ok) ==
    /\ op = "live" /\ pc = "capture"
    /\ elapsed' = elapsed + 1
    /\ calls' = Append(calls, "record_and_transcribe")
    /\ IF ~started
         THEN /\ stepKinds' = [stepKinds EXCEPT !.transcribe = "return"]
              /\ results' = [results EXCEPT
                                !.error = <<"Failed to record or transcribe audio">>]
              /\ pc' = "returned"
              /\ UNCHANGED <<tempFiles, created>>
         ELSE IF ok
           THEN /\ tempFiles' = tempFiles \cup {RecorderTempFile}
                /\ created' = created \cup {RecorderTempFile}
                /\ pc' = "record"
                /\ UNCHANGED <<stepKinds, results>>
           ELSE /\ stepKinds' = [stepKinds EXCEPT !.transcribe = "raise"]
                /\ \E m \in ExcMessages : Caught(m)
                /\ UNCHANGED <<tempFiles, created>>
    /\ UNCHANGED <<op, create_note, transcription, summary, backendReturn, noteSummary>>
    /\ UNCHANGED <<orchVars, clientVars, storeVars>>

\* microphone.record_and_transcribe, second half: the try block (save_recording, then
\* transcribe_recording, the wait for the ASR service; neither raises) and its finally
LiveRecord(o) ==
    /\ op = "live" /\ pc = "record"
    /\ o.kind = "return"
    /\ elapsed' = elapsed + 1
    /\ stepKinds' = [stepKinds EXCEPT !.transcribe = o.kind]
    /\ tempFiles' = FinallyUnlink(tempFiles, RecorderTempFile)
    /\ transcription' = o.value
    /\ IF TranscriptionFailed(o.value)
         THEN /\ results' = [results EXCEPT
                                !.error = <<"Failed to record or transcribe audio">>]
              /\ pc' = "returned"
         ELSE /\ results' = [results EXCEPT !.transcription = o.value]
              /\ pc' = "summarize"
    /\ UNCHANGED <<op, create_note, summary, calls, backendReturn, noteSummary, created>>
    /\ UNCHANGED <<orchVars, clientVars, storeVars>>

\* results['summary'] = summary or transcription[:500] + "..."
LiveSummarize(o) ==
    /\ op = "live" /\ pc = "summarize"
    /\ elapsed' = elapsed + 1
    /\ LET s == SummarizeText(o) IN
          /\ summary' = s
          /\ results' = [results EXCEPT
                            !.summary = IF Truthy(s) THEN s ELSE LiveFallback(transcription)]
          /\ calls' = IF components.summarizer THEN Append(calls, "summarize") ELSE calls
          /\ stepKinds' = IF components.summarizer
                            THEN [stepKinds EXCEPT !.summarize = o.kind] ELSE stepKinds
    /\ pc' = "note"
    /\ UNCHANGED <<op, create_note, transcription, backendReturn, noteSummary, tempFiles, created>>
    /\ UNCHANGED <<orchVars, clientVars, storeVars>>

\* "Create note": tempfile.NamedTemporaryFile(delete=False) when enabled and a backend
\* is set (it can raise an OSError); otherwise the run is over
LiveTempFile(ok) ==
    /\ op = "live" /\ pc = "note"
    /\ elapsed' = elapsed + 1
    /\ IF create_note /\ HasBackend
         THEN IF ok
                THEN /\ tempFiles' = tempFiles \cup {TempFile}
                     /\ created' = created \cup {TempFile}
                     /\ pc' = "save"
                     /\ UNCHANGED results
                ELSE /\ \E m \in ExcMessages : Caught(m)
                     /\ UNCHANGED <<tempFiles, created>>
         ELSE /\ Succeed(results)
              /\ UNCHANGED <<tempFiles, created>>
    /\ UNCHANGED <<op, create_note, transcription, summary, calls, stepKinds, backendReturn,
                   noteSummary>>
    /\ UNCHANGED <<orchVars, clientVars, storeVars>>

\* the try block: microphone.save_recording, then _create_note if it saved
LiveSaveAndNote(saved, b) ==
    /\ op = "live" /\ pc = "save"
    /\ elapsed' = elapsed + 1
    /\ IF saved
         THEN LET n == CreateNote(b) IN
              /\ results' = [results EXCEPT !.note_created = n.created]
              /\ backendReturn' = n.location
              /\ noteSummary' = n.summary
              /\ calls' = Append(calls, "save_recording") \o n.calls
         ELSE /\ results' = [results EXCEPT !.note_created = FALSE]
              /\ calls' = Append(calls, "save_recording")
              /\ UNCHANGED <<backendReturn, noteSummary>>
    /\ pc' = "cleanup"
    /\ UNCHANGED <<op, create_note, transcription, summary, stepKinds, tempFiles, created>>
    /\ UNCHANGED <<orchVars, clientVars, storeVars>>

\* the finally block (os.unlink), then success and the time
LiveCleanup ==
    /\ op = "live" /\ pc = "cleanup"
    /\ elapsed' = elapsed + 1
    /\ tempFiles' = FinallyUnlink(tempFiles, TempFile)
    /\ Succeed(results)
    /\ UNCHANGED <<op, create_note, transcription, summary, calls, stepKinds, backendReturn,
                   noteSummary, created>>
    /\ UNCHANGED <<orchVars, clientVars, storeVars>>

\* the caller cancels a live run (KeyboardInterrupt) while it waits: for the capture,
\* for the ASR service inside the try block of record_and_transcribe, or for
\* save_recording / the backend inside the try block of process_live_recording.  The
\* finally block around the wait runs; "except Exception" does not catch it.
Cancel ==
    /\ op = "live" /\ pc \in {"capture", "record", "save"}
    /\ tempFiles' = IF pc = "record" THEN FinallyUnlink(tempFiles, RecorderTempFile)
                    ELSE IF pc = "save" THEN FinallyUnlink(tempFiles, TempFile)
                    ELSE tempFiles
    /\ pc' = "cancelled"
    /\ UNCHANGED <<op, create_note, results, transcription, summary, calls, stepKinds,
                   backendReturn, noteSummary, created, elapsed>>
    /\ UNCHANGED <<orchVars, clientVars, storeVars>>

\* the caller has the results dict, or the interrupt; the orchestrator can be called
\* again
Return ==
    /\ pc \in {"returned", "cancelled"}
    /\ op' = "none"
    /\ pc' = "idle"
    /\ UNCHANGED <<create_note, results, transcription, summary, calls, stepKinds,
                   backendReturn, noteSummary, tempFiles, created, elapsed>>
    /\ UNCHANGED <<orchVars, clientVars, storeVars>>

PipelineNext ==
    \/ \E cn \in BOOLEAN : ProcessAudioFile(cn)
    \/ \E o \in TranscribeOutcomes : FileTranscribe(o)
    \/ \E o \in SummarizeOutcomes : FileSummarize(o)
    \/ \E b \in BackendOutcomes : FileNote(b)
    \/ \E cn \in BOOLEAN : ProcessLiveRecording(cn)
    \/ \E started \in BOOLEAN, ok \in BOOLEAN : LiveCapture(started, ok)
    \/ \E o \in TranscribeOutcomes : LiveRecord(o)
    \/ \E o \in SummarizeOutcomes : LiveSummarize(o)
    \/ \E ok \in BOOLEAN : LiveTempFile(ok)
    \/ \E saved \in BOOLEAN, b \in BackendOutcomes : LiveSaveAndNote(saved, b)
    \/ LiveCleanup
    \/ Cancel
    \/ Return

-----------------------------------------------------------------------------
(* OneNoteManager: voice_ai_pipeline/onenote_manager.py *)

\* "return None": no identifier
NoId == 0

DefaultNotebook == "AI Transcriptions"
DefaultSection == "Transcriptions"
NotebookNames == {DefaultNotebook, "Meetings"}
SectionNames == {DefaultSection, "Ideas"}

EmptyStore == [notebooks |-> {}, sections |-> {}, pages |-> {}, nextId |-> 1]

\* the identifier of the first entry of a listing (the service lists in creation order)
FirstId(entries) == CHOOSE i \in {e.id : e \in entries} : \A e \in entries : i <= e.id

\* list_notebooks: the notebooks of the service, or [] when the request raises
ListNotebooks(store, listOk) == IF listOk THEN store.notebooks ELSE {}

\* list_sections: the sections of the notebook, or [] when the request raises
ListSections(store, notebook_id, listOk) ==
    IF listOk THEN {s \in store.sections : s.notebook = notebook_id} ELSE {}

\* get_or_create_notebook: the identifier of the first listed notebook of that name;
\* without one a notebook is posted, and None is returned when the post raises
GetOrCreateNotebook(store, notebook_name, listOk, postOk) ==
    LET found == {n \in ListNotebooks(store, listOk) : n.name = notebook_name} IN
    IF found # {} THEN [id |-> FirstId(found), store |-> store]
    ELSE IF postOk
      THEN [id |-> store.nextId,
            store |-> [store EXCEPT
                          !.notebooks = @ \cup {[id |-> store.nextId, name |-> notebook_name]},
                          !.nextId = @ + 1]]
      ELSE [id |-> NoId, store |-> store]

\* get_or_create_section: the same under a notebook
GetOrCreateSection(store, notebook_id, section_name, listOk, postOk) ==
    LET found == {s \in ListSections(store, notebook_id, listOk) : s.name = section_name} IN
    IF found # {} THEN [id |-> FirstId(found), store |-> store]
    ELSE IF postOk
      THEN [id |-> store.nextId,
            store |-> [store EXCEPT
                          !.sections = @ \cup {[id |-> store.nextId, notebook |-> notebook_id,
                                                name |-> section_name]},
                          !.nextId = @ + 1]]
      ELSE [id |-> NoId, store |-> store]

\* create_note_page: the identifier of the posted page, or None when the post raises
CreateNotePage(store, section_id, postOk) ==
    IF postOk
      THEN [id |-> store.nextId,
            store |-> [store EXCEPT
                          !.pages = @ \cup {[id |-> store.nextId, section |-> section_id]},
                          !.nextId = @ + 1]]
      ELSE [id |-> NoId, store |-> store]

\* how the requests of one create_transcription_note go
NoteRequests == [nbList : BOOLEAN, nbPost : BOOLEAN, secList : BOOLEAN, secPost : BOOLEAN,
                 page : BOOLEAN]

StepNames == <<"get_or_create_notebook", "get_or_create_section", "create_note_page">>

\* mutant of TranscriptionNote: the steps go on after one that gave no identifier
TranscriptionNoteGoesOn(store, o) ==
    LET nb == GetOrCreateNotebook(store, DefaultNotebook, o.nbList, o.nbPost)
        sec == GetOrCreateSection(nb.store, nb.id, DefaultSection, o.secList, o.secPost)
        page == CreateNotePage(sec.store, sec.id, o.page)
    IN [result |-> (page.id # NoId), ids |-> <<nb.id, sec.id, page.id>>, store |-> page.store]

\* create_transcription_note: notebook, section, page; False as soon as a step gives
\* no identifier, "page_id is not None" at the end.  ids are what the steps returned.
TranscriptionNote(store, o) ==
    LET nb == GetOrCreateNotebook(store, DefaultNotebook, o.nbList, o.nbPost) IN
    IF nb.id = NoId THEN [result |-> FALSE, ids |-> <<nb.id>>, store |-> nb.store]
    ELSE
      LET sec == GetOrCreateSection(nb.store, nb.id, DefaultSection, o.secList, o.secPost) IN
      IF sec.id = NoId
        THEN [result |-> FALSE, ids |-> <<nb.id, sec.id>>, store |-> sec.store]
        ELSE LET page == CreateNotePage(sec.store, sec.id, o.page) IN
             [result |-> (page.id # NoId), ids |-> <<nb.id, sec.id, page.id>>,
              store |-> page.store]

\* no create_transcription_note yet
NoNote == [result |-> FALSE, ids |-> << >>,
           requests |-> [nbList |-> FALSE, nbPost |-> FALSE, secList |-> FALSE,
                         secPost |-> FALSE, page |-> FALSE]]

StoreInit ==
    /\ onenoteStore = EmptyStore
    /\ returned = {}
    /\ lastNote = NoNote

\* the service hands out identifiers up to the bound
WithinIds(store) == store.nextId <= MaxRemoteIds + 1

GetOrCreateNotebookCall(notebook_name, listOk, postOk) ==
    LET r == GetOrCreateNotebook(onenoteStore, notebook_name, listOk, postOk) IN
    /\ WithinIds(r.store)
    /\ onenoteStore' = r.store
    /\ returned' = IF r.id = NoId THEN returned
                   ELSE returned \cup {<<"notebook", NoId, notebook_name, r.id>>}
    /\ UNCHANGED lastNote
    /\ UNCHANGED <<clientVars, orchVars, runVars, localVars, promptVars, senderVars, sharedVars>>

\* the caller passes the identifier of a notebook it was given
GetOrCreateSectionCall(notebook_id, section_name, listOk, postOk) ==
    LET r == GetOrCreateSection(onenoteStore, notebook_id, section_name, listOk, postOk) IN
    /\ notebook_id \in {n.id : n \in onenoteStore.notebooks}
    /\ WithinIds(r.store)
    /\ onenoteStore' = r.store
    /\ returned' = IF r.id = NoId THEN returned
                   ELSE returned \cup {<<"section", notebook_id, section_name, r.id>>}
    /\ UNCHANGED lastNote
    /\ UNCHANGED <<clientVars, orchVars, runVars, localVars, promptVars, senderVars, sharedVars>>

CreateTranscriptionNoteCall(o) ==
    LET r == TranscriptionNote(onenoteStore, o) IN
    /\ WithinIds(r.store)
    /\ onenoteStore' = r.store
    /\ lastNote' = [result |-> r.result, ids |-> r.ids, requests |-> o]
    /\ returned' = returned
          \cup (IF r.ids[1] = NoId THEN {}
                ELSE {<<"notebook", NoId, DefaultNotebook, r.ids[1]>>})
          \cup (IF r.ids[1] = NoId \/ r.ids[2] = NoId THEN {}
                ELSE {<<"section", r.ids[1], DefaultSection, r.ids[2]>>})
    /\ UNCHANGED <<clientVars, orchVars, runVars, localVars, promptVars, senderVars, sharedVars>>

RemoteNext ==
    \/ \E name \in NotebookNames, listOk \in BOOLEAN, postOk \in BOOLEAN :
          GetOrCreateNotebookCall(name, listOk, postOk)
    \/ \E id \in 1..MaxRemoteIds, name \in SectionNames, listOk \in BOOLEAN,
          postOk \in BOOLEAN :
          GetOrCreateSectionCall(id, name, listOk, postOk)
    \/ \E o \in NoteRequests : CreateTranscriptionNoteCall(o)

-----------------------------------------------------------------------------
(* LocalNoteManager: voice_ai_pipeline/local_notes.py *)

\* the characters re.sub(r'[<>:"/\\|?*]', '_', name) replaces
InvalidChars == {"<", ">", ":", "\"", "/", "\\", "|", "?", "*"}

Untitled == <<"u", "n", "t", "i", "t", "l", "e", "d">>

\* safe_name.strip(' .')
RECURSIVE Strip(_)
Strip(s) ==
    IF s = << >> THEN s
    ELSE IF Head(s) \in {" ", "."} THEN Strip(Tail(s))
    ELSE IF s[Len(s)] \in {" ", "."} THEN Strip(SubSeq(s, 1, Len(s) - 1))
    ELSE s

\* _sanitize_filename
SanitizeFilename(name) ==
    LET replaced == [i \in 1..Len(name) |-> IF name[i] \in InvalidChars THEN "_" ELSE name[i]]
        stripped == Strip(replaced)
        capped == IF Len(stripped) > SafeNameLimit
                    THEN SubSeq(stripped, 1, SafeNameLimit) ELSE stripped
    IN IF capped = << >> THEN Untitled ELSE capped

\* characters of names: a letter, the stripped ones, an invalid one, another whitespace
SlugChars == {"a", ".", " ", "/", "\t"}

ShortNames == UNION {[1..n -> SlugChars] : n \in 0..MaxNameLen}

\* names around the length limit: SafeNameLimit - 1 letters, then a short name
LongNames == {MkText(SafeNameLimit - 1, 0) \o t : t \in ShortNames}

\* the names notebooks are created with
LocalNotebookNames == {<<"A", "I">>, <<"a", "/", "b">>, <<"a", "_", "b">>}
\* the notebooks notes are put in: the default one and another
NoteNotebookNames == {<<"A", "I">>, <<"a", "/", "b">>}
LocalSectionNames == {<<"T", ".">>}

\* self.notes_dir / safe_name
NotebookPath(name) == <<"notes">> \o SanitizeFilename(name)

\* notebook_path / safe section name
SectionPath(notebook_name, section_name) ==
    NotebookPath(notebook_name) \o <<"/">> \o SanitizeFilename(section_name)

\* the default metadata of _load_metadata
DefaultMetadata == [note_count |-> 0, notebooks |-> << >>]

\* mutant of RegisterNotebook: the registry entry is written on every call
RegisterNotebookAlways(meta, name, now) ==
    LET safe_name == SanitizeFilename(name) IN
    [meta EXCEPT !.notebooks =
        [k \in DOMAIN meta.notebooks \cup {safe_name} |->
            IF k = safe_name
              THEN [name |-> name, created |-> now, note_count |-> 0,
                    path |-> NotebookPath(name)]
              ELSE meta.notebooks[k]]]

\* "if safe_name not in self.metadata['notebooks']": the entry is added when absent
RegisterNotebook(meta, name, now) ==
    LET safe_name == SanitizeFilename(name) IN
    IF safe_name \in DOMAIN meta.notebooks THEN meta
    ELSE [meta EXCEPT !.notebooks =
            [k \in DOMAIN meta.notebooks \cup {safe_name} |->
                IF k = safe_name
                  THEN [name |-> name, created |-> now, note_count |-> 0,
                        path |-> NotebookPath(name)]
                  ELSE meta.notebooks[k]]]

\* "Update metadata" of create_note: the notebook's count, if registered, and the total
CountNote(meta, notebook) ==
    LET notebook_key == SanitizeFilename(notebook) IN
    [note_count |-> meta.note_count + 1,
     notebooks |-> [k \in DOMAIN meta.notebooks |->
                      IF k = notebook_key
                        THEN [meta.notebooks[k] EXCEPT !.note_count = @ + 1]
                        ELSE meta.notebooks[k]]]

\* the first registration of a key, and the notes counted for it since
Remember(reg, name, now) ==
    LET safe_name == SanitizeFilename(name) IN
    IF safe_name \in DOMAIN reg THEN reg
    ELSE [k \in DOMAIN reg \cup {safe_name} |->
            IF k = safe_name THEN [created |-> now, notes |-> 0] ELSE reg[k]]

\* metadata.json on disk: absent, not parsable, or the metadata last dumped into it
MissingFile == [state |-> "missing", content |-> DefaultMetadata]
CorruptFile == [state |-> "corrupt", content |-> DefaultMetadata]
Dumped(meta) == [state |-> "written", content |-> meta]

\* _load_metadata: the content of the file, or the default metadata when the file does
\* not exist or json.load raises
LoadMetadata(file) == IF file.state = "written" THEN file.content ELSE DefaultMetadata

\* the LocalNoteManager instances of several orchestrators on one base directory
Stores == 1..MaxStores

\* an instance not constructed yet
NoStore == [opened |-> FALSE, metadata |-> DefaultMetadata]

\* LocalNoteManager() on a base directory without notes whose metadata.json is file
LocalOn(file) ==
    /\ metadataFile = file
    /\ metadata = LoadMetadata(file)
    /\ directories = {}
    /\ noteFiles = {}
    /\ second = 0
    /\ noteCalls = {}
    /\ clock = 0
    /\ notebookPaths = {}
    /\ registered = << >>
    /\ stores = [i \in Stores |-> NoStore]
    /\ lastSaver = 0

\* no _sanitize_filename call is looked at
SlugIdleInit == slugged = [name |-> << >>, slug |-> << >>, applied |-> 0]

\* LocalNoteManager() on an empty base directory
LocalInit == LocalOn(MissingFile) /\ SlugIdleInit

\* create_notebook: mkdir(exist_ok=True), the registry entry when absent and then
\* _save_metadata, which keeps a failure to write to itself
LocalCreateNotebook(name, saveOk) ==
    /\ clock < MaxLocalCalls
    /\ clock' = clock + 1
    /\ directories' = directories \cup {NotebookPath(name)}
    /\ metadata' = RegisterNotebook(metadata, name, clock')
    /\ metadataFile' = IF metadata' # metadata /\ saveOk THEN Dumped(metadata')
                                                           ELSE metadataFile
    /\ notebookPaths' = notebookPaths \cup {<<name, NotebookPath(name)>>}
    /\ registered' = Remember(registered, name, clock')
    /\ UNCHANGED <<noteFiles, second, noteCalls>>
    /\ UNCHANGED <<clientVars, orchVars, runVars, remoteVars, promptVars, senderVars, sharedVars>>

\* create_section: mkdir(parents=True, exist_ok=True); the registry is not touched
LocalCreateSection(notebook_name, section_name) ==
    /\ clock < MaxLocalCalls
    /\ clock' = clock + 1
    /\ directories' = directories \cup {NotebookPath(notebook_name),
                                         SectionPath(notebook_name, section_name)}
    /\ UNCHANGED <<metadata, metadataFile, noteFiles, second, noteCalls, notebookPaths,
                   registered>>
    /\ UNCHANGED <<clientVars, orchVars, runVars, remoteVars, promptVars, senderVars, sharedVars>>

SharedTitles == {<<"m", "e", "m", "o">>, <<"t", "o", "d", "o">>}

LocalTitles == {<<"m", "e", "m", "o">>}
NoteFormats == {"markdown", "html"}

\* mutant of NotePath: the file name is the title alone
NotePathUntimed(notebook, section, title, format, stamp) ==
    [section |-> SectionPath(notebook, section), stamp |-> 0,
     title |-> SanitizeFilename(title),
     ext |-> IF format = "html" THEN ".html" ELSE ".md"]

\* Path(section_path) / f"{timestamp}_{safe_title}" + ".html" or ".md", the timestamp
\* being strftime("%Y%m%d_%H%M%S") of the time of the call
NotePath(notebook, section, title, format, stamp) ==
    [section |-> SectionPath(notebook, section), stamp |-> stamp,
     title |-> SanitizeFilename(title),
     ext |-> IF format = "html" THEN ".html" ELSE ".md"]

\* open(note_path, 'w') and write: the file at that path now holds what this call wrote
WriteFile(files, path, writer) ==
    {f \in files : f.path # path} \cup {[path |-> path, writer |-> writer]}

\* create_note: create_notebook, create_section, the note file (open can raise, and
\* then nothing is counted), the counts, _save_metadata.  later says whether the
\* second of the clock has changed since the call before.
LocalCreateNote(notebook, section, title, format, later, writeOk, saveOk) ==
    /\ clock < MaxLocalCalls
    /\ clock' = clock + 1
    /\ second' = IF later THEN second + 1 ELSE second
    /\ directories' = directories \cup {NotebookPath(notebook), SectionPath(notebook, section)}
    /\ notebookPaths' = notebookPaths \cup {<<notebook, NotebookPath(notebook)>>}
    /\ LET meta == RegisterNotebook(metadata, notebook, clock')
           reg == Remember(registered, notebook, clock')
           firstSave == IF meta # metadata /\ saveOk THEN Dumped(meta) ELSE metadataFile
           note_path == NotePath(notebook, section, title, format, second')
       IN IF writeOk
            THEN /\ noteFiles' = WriteFile(noteFiles, note_path, clock')
                 /\ noteCalls' = noteCalls
                        \cup {[title |-> title, notebook |-> notebook, section |-> section,
                               format |-> format, second |-> second', path |-> note_path,
                               writer |-> clock']}
                 /\ metadata' = CountNote(meta, notebook)
                 /\ metadataFile' = IF saveOk THEN Dumped(metadata') ELSE firstSave
                 /\ registered' = [reg EXCEPT ![SanitizeFilename(notebook)].notes = @ + 1]
            ELSE /\ metadata' = meta
                 /\ metadataFile' = firstSave
                 /\ registered' = reg
                 /\ UNCHANGED <<noteFiles, noteCalls>>
    /\ UNCHANGED <<clientVars, orchVars, runVars, remoteVars, promptVars, senderVars, sharedVars>>

\* ---- several instances on one base directory, no lock ----

\* LocalNoteManager(base_dir) is constructed: _load_metadata reads what is on disk now
OpenStore(i) ==
    /\ ~stores[i].opened
    /\ stores' = [stores EXCEPT ![i] = [opened |-> TRUE,
                                        metadata |-> LoadMetadata(metadataFile)]]
    /\ UNCHANGED <<localVars, lastSaver, slugged>>
    /\ UNCHANGED <<clientVars, orchVars, runVars, remoteVars, promptVars, senderVars>>

\* create_note on instance i with the default notebook and section: create_notebook
\* (which saves when it registers), the note file, the counts, _save_metadata
StoreCreateNote(i, title, later, saveOk) ==
    /\ stores[i].opened
    /\ clock < MaxLocalCalls
    /\ clock' = clock + 1
    /\ second' = IF later THEN second + 1 ELSE second
    /\ LET notebook == <<"A", "I">>
           section == <<"T", ".">>
           meta == RegisterNotebook(stores[i].metadata, notebook, clock')
           counted == CountNote(meta, notebook)
           note_path == NotePath(notebook, section, title, "markdown", second')
       IN /\ directories' = directories
                  \cup {NotebookPath(notebook), SectionPath(notebook, section)}
          /\ noteFiles' = WriteFile(noteFiles, note_path, clock')
          /\ stores' = [stores EXCEPT ![i].metadata = counted]
          /\ metadataFile' = IF saveOk THEN Dumped(counted) ELSE metadataFile
          /\ lastSaver' = i
    /\ UNCHANGED <<metadata, noteCalls, notebookPaths, registered, slugged>>
    /\ UNCHANGED <<clientVars, orchVars, runVars, remoteVars, promptVars, senderVars>>

\* ---- _sanitize_filename on its own ----

\* _sanitize_filename(name) for the name given
Sanitize ==
    /\ slugged.applied = 0
    /\ slugged' = [slugged EXCEPT !.slug = SanitizeFilename(slugged.name), !.applied = 1]
    /\ UNCHANGED <<localVars, stores, lastSaver>>
    /\ UNCHANGED <<clientVars, orchVars, runVars, remoteVars, promptVars, senderVars>>

\* _sanitize_filename of what the last call returned: a registry key, as list_notebooks
\* gives it, used as a notebook name
SanitizeSlug ==
    /\ slugged.applied = 1
    /\ slugged' = [name |-> slugged.slug, slug |-> SanitizeFilename(slugged.slug),
                   applied |-> 2]
    /\ UNCHANGED <<localVars, stores, lastSaver>>
    /\ UNCHANGED <<clientVars, orchVars, runVars, remoteVars, promptVars, senderVars>>

SlugNext ==
    \/ Sanitize
    \/ SanitizeSlug

SharedNext ==
    \/ \E i \in Stores : OpenStore(i)
    \/ \E i \in Stores, title \in SharedTitles, later \in BOOLEAN, saveOk \in BOOLEAN :
          StoreCreateNote(i, title, later, saveOk)

LocalNext ==
    \/ \E name \in LocalNotebookNames, saveOk \in BOOLEAN : LocalCreateNotebook(name, saveOk)
    \/ \E name \in LocalNotebookNames, section \in LocalSectionNames :
          LocalCreateSection(name, section)
    \/ \E name \in NoteNotebookNames, section \in LocalSectionNames, title \in LocalTitles,
          format \in NoteFormats, later \in BOOLEAN, writeOk \in BOOLEAN, saveOk \in BOOLEAN :
          LocalCreateNote(name, section, title, format, later, writeOk, saveOk)

-----------------------------------------------------------------------------
(* MCPClient.create_prompt_from_transcription: voice_ai_pipeline/mcp_client.py *)
(* A transcription is a string here: keywords are found as substrings.    *)

UpperCase == "ABCDEFGHIJKLMNOPQRSTUVWXYZ"
LowerCase == "abcdefghijklmnopqrstuvwxyz"

LowerChar(c) ==
    IF \E i \in 1..Len(UpperCase) : SubSeq(UpperCase, i, i) = c
      THEN LET i == CHOOSE j \in 1..Len(UpperCase) : SubSeq(UpperCase, j, j) = c
           IN SubSeq(LowerCase, i, i)
      ELSE c

\* str.lower()
RECURSIVE Lower(_)
Lower(s) == IF s = "" THEN "" ELSE LowerChar(SubSeq(s, 1, 1)) \o Lower(SubSeq(s, 2, Len(s)))

\* str.strip()
RECURSIVE StripSpaces(_)
StripSpaces(s) ==
    IF s = "" THEN s
    ELSE IF SubSeq(s, 1, 1) = " " THEN StripSpaces(SubSeq(s, 2, Len(s)))
    ELSE IF SubSeq(s, Len(s), Len(s)) = " " THEN StripSpaces(SubSeq(s, 1, Len(s) - 1))
    ELSE s

\* "word in text": word is a substring of text
Contains(text, word) ==
    \E i \in 1..(Len(text) - Len(word) + 1) : SubSeq(text, i, i + Len(word) - 1) = word

\* any(word in text_lower for word in words)
AnyIn(words, text) == \E word \in words : Contains(text, word)

QuestionWords == {"what", "how", "why", "when", "where", "who", "can you", "could you"}
CommandWords == {"please", "can you", "would you", "help me", "create", "make", "do"}
CodeWords == {"code", "function", "class", "script", "program", "write"}

\* mutant of DetectPromptType: the command words are looked for first
DetectPromptTypeCommandFirst(spoken) ==
    LET text_lower == StripSpaces(Lower(spoken)) IN
    IF AnyIn(CommandWords, text_lower)
      THEN IF AnyIn(CodeWords, text_lower) THEN "code_request" ELSE "command"
    ELSE IF AnyIn(QuestionWords, text_lower) THEN "question"
    ELSE "general"

\* _detect_prompt_type
DetectPromptType(spoken) ==
    LET text_lower == StripSpaces(Lower(spoken)) IN
    IF AnyIn(QuestionWords, text_lower) THEN "question"
    ELSE IF AnyIn(CommandWords, text_lower)
      THEN IF AnyIn(CodeWords, text_lower) THEN "code_request" ELSE "command"
    ELSE "general"

\* len(text.split()): the number of runs of characters that are not spaces
WordCount(text) ==
    Cardinality({i \in 1..Len(text) :
                    /\ SubSeq(text, i, i) # " "
                    /\ (i = 1 \/ SubSeq(text, i - 1, i - 1) = " ")})

\* sum(len(word) for word in text.split())
WordChars(text) == Cardinality({i \in 1..Len(text) : SubSeq(text, i, i) # " "})

Min(a, b) == IF a <= b THEN a ELSE b

\* _calculate_confidence, in thousandths:
\* min(0.9, word_count / 20) + min(0.1, avg_word_length / 10)
CalculateConfidence(text) ==
    LET word_count == WordCount(text)
        divisor == IF word_count > 1 THEN word_count ELSE 1
    IN Min(900, word_count * 50) + Min(100, (WordChars(text) * 100) \div divisor)

\* the default table of __init__; a template is the text before its "{text}"
DefaultTemplates ==
    [t \in PromptTypes |->
        CASE t = "question" -> "Please help me with this question: "
          [] t = "command" -> "Please execute this command or task: "
          [] t = "code_request" -> "Please help me write code for: "
          [] t = "general" -> ""]

\* the tables passed as prompt_templates: none, an empty one, one without "general",
\* one with its own "general"
NoTable == [t \in {} |-> ""]
TemplateTables ==
    {NoTable,
     [t \in {"question"} |-> "Q: "],
     [t \in {"question", "general"} |-> IF t = "question" THEN "Q: " ELSE "G: "],
     DefaultTemplates}

\* "prompt_templates or {...}"
ConfiguredTemplates(table) == IF DOMAIN table = {} THEN DefaultTemplates ELSE table

\* template.format(text=transcription.strip())
Render(template, spoken) == template \o StripSpaces(spoken)

\* the transcriptions prompts are built from
Transcriptions ==
    {"What is the capital of France?",
     "Please write a function to reverse a string",
     "Can you help me write a Python function?",
     "Please open the window",
     "hello there",
     " make tea "}

NoType == "None"
GivenTypes == {NoType, "command"}

NoPrompt == [kind |-> "none", text |-> "", prompt_type |-> NoType, confidence |-> 0,
             transcription |-> "", given |-> NoType, session_id |-> None]

\* create_prompt_from_transcription: the type is detected when none is given;
\* self.prompt_templates.get(prompt_type.value, self.prompt_templates["general"])
\* evaluates its default first, a KeyError when the table has no "general".  The
\* context of the prompt takes the conversation id of the session as session_id.
CreatePromptFromTranscription(templates, ctx, spoken, given_type) ==
    LET prompt_type == IF given_type = NoType THEN DetectPromptType(spoken)
                       ELSE given_type
    IN IF "general" \notin DOMAIN templates
         THEN [kind |-> "KeyError", text |-> "general", prompt_type |-> prompt_type,
               confidence |-> 0, transcription |-> spoken, given |-> given_type,
               session_id |-> None]
         ELSE LET template == IF prompt_type \in DOMAIN templates
                                THEN templates[prompt_type] ELSE templates["general"]
              IN [kind |-> "prompt", text |-> Render(template, spoken),
                  prompt_type |-> prompt_type,
                  confidence |-> CalculateConfidence(spoken),
                  transcription |-> spoken, given |-> given_type,
                  session_id |-> ctx.conversation_id]

PromptInit ==
    /\ \E table \in TemplateTables : prompt_templates = ConfiguredTemplates(table)
    /\ prompt = NoPrompt
    /\ previous = NoPrompt

PromptIdleInit ==
    /\ prompt_templates = DefaultTemplates
    /\ prompt = NoPrompt
    /\ previous = NoPrompt

CreatePrompt(spoken, given_type) ==
    /\ prompt' = CreatePromptFromTranscription(prompt_templates, session_context, spoken,
                                               given_type)
    /\ previous' = prompt
    /\ UNCHANGED prompt_templates
    /\ UNCHANGED <<clientVars, orchVars, runVars, remoteVars, localVars, senderVars, sharedVars>>

\* the session changes between two prompts (_update_session_context, clear_session)
SessionChanges(body) ==
    /\ \/ session_context' = UpdateSessionContext(session_context, "general", body)
       \/ session_context' = ClearedSession(session_context)
    /\ session_context' # session_context
    /\ UNCHANGED <<max_retries, sendPc, attempt, outcomes, slept, sendPrompt, sendResult,
                   envelope, lastSessionOp, cancel>>
    /\ UNCHANGED <<orchVars, runVars, storeVars>>

PromptNext ==
    \/ \E text \in Transcriptions, type \in GivenTypes : CreatePrompt(text, type)
    \/ \E body \in {b \in Bodies : b.conversation_id = <<"conv-1">>} : SessionChanges(body)

-----------------------------------------------------------------------------
(* Specifications *)

\* the client alone: the orchestrator stays as constructed
ClientIdleInit ==
    /\ max_retries = 3
    /\ session_context = EmptySession
    /\ sendPc = "idle"
    /\ attempt = 0
    /\ outcomes = << >>
    /\ slept = << >>
    /\ sendPrompt = "general"
    /\ sendResult = None
    /\ envelope = NoEnvelope
    /\ lastSessionOp = "construct"
    /\ cancel = NoCancel
    /\ senders = [t \in Senders |-> NoSender]
    /\ lastWriter = NoWriter

OrchIdleInit ==
    /\ config = [note_storage |-> "local", msgraph |-> FALSE, client_id |-> FALSE]
    /\ components = [NoComponents EXCEPT !.local_notes = TRUE]
    /\ initError = "none"
    /\ op = "none"
    /\ pc = "idle"
    /\ create_note = TRUE
    /\ results = NoResults
    /\ transcription = None
    /\ summary = None
    /\ calls = << >>
    /\ stepKinds = NoSteps
    /\ backendReturn = None
    /\ noteSummary = None
    /\ tempFiles = {}
    /\ created = {}
    /\ elapsed = 0

SendInit == ClientInit /\ OrchIdleInit /\ StoreInit /\ LocalInit /\ PromptIdleInit
SendSpec == SendInit /\ [][SendNext]_vars

\* the send with its waits ending: requests.post is called with timeout=self.timeout, so
\* it returns or raises, and time.sleep(2 ** attempt) returns
SendFairSpec ==
    /\ SendInit
    /\ [][SendNext]_vars
    /\ WF_vars(\E o \in PostOutcomes : Attempt(o))
    /\ WF_vars(NextAttempt)

PipelineInit == OrchInit /\ ClientIdleInit /\ StoreInit /\ LocalInit /\ PromptIdleInit
PipelineSpec == PipelineInit /\ [][PipelineNext]_vars

\* the OneNote manager alone, against a Graph service that starts empty
RemoteInit == StoreInit /\ ClientIdleInit /\ OrchIdleInit /\ LocalInit /\ PromptIdleInit
RemoteSpec == RemoteInit /\ [][RemoteNext]_vars

\* the local note manager alone, on an empty base directory
LocalStoreInit ==
    /\ \E file \in {MissingFile, CorruptFile} : LocalOn(file)
    /\ SlugIdleInit
    /\ ClientIdleInit /\ OrchIdleInit /\ StoreInit /\ PromptIdleInit
LocalSpec == LocalStoreInit /\ [][LocalNext]_vars

\* several local note managers on one empty base directory
SharedInit == LocalInit /\ ClientIdleInit /\ OrchIdleInit /\ StoreInit /\ PromptIdleInit
SharedSpec == SharedInit /\ [][SharedNext]_vars

\* _sanitize_filename alone, on a short name or on one around the length limit
SlugInit ==
    /\ slugged \in {[name |-> n, slug |-> << >>, applied |-> 0] :
                       n \in ShortNames \cup LongNames}
    /\ LocalOn(MissingFile) /\ ClientIdleInit /\ OrchIdleInit /\ StoreInit /\ PromptIdleInit
SlugSpec == SlugInit /\ [][SlugNext]_vars

\* prompt building alone, on a client whose session changes in between
PromptSpecInit == PromptInit /\ ClientIdleInit /\ OrchIdleInit /\ StoreInit /\ LocalInit
PromptSpec == PromptSpecInit /\ [][PromptNext]_vars

\* several sends on one client constructed with its defaults
ConcurrentInit == ClientIdleInit /\ OrchIdleInit /\ StoreInit /\ LocalInit /\ PromptIdleInit
ConcurrentSpec == ConcurrentInit /\ [][ConcurrentNext]_vars

-----------------------------------------------------------------------------
(* Properties *)

Returned == op \in {"file", "live"} /\ pc = "returned"

Called(name) == \E i \in 1..Len(calls) : calls[i] = name

BackendCalled == Called("onenote.create_transcription_note") \/ Called("local_notes.create_note")

\* an attempt that failed: a transport exception or a status that is not 2xx
FailedOutcome(o) == o.kind = "RequestException" \/ o.status < 200 \/ o.status > 299

AllFailed(os) == \A i \in 1..Len(os) : FailedOutcome(os[i])

\* the delays 2^0, 2^1, ..., 2^(n-1)
Backoffs(n) == [k \in 1..n |-> 2 ^ (k - 1)]

\* C1: against an endpoint that fails every attempt, a send of a client with
\* max_retries = N >= 1 never succeeds and never makes more than N attempts; it has
\* slept 2^k seconds after each attempt k that was not the last, and when it fails it
\* has made exactly N attempts, slept 2^0 .. 2^(N-2) and not slept after the last.
C1_RetryBound ==
    (max_retries >= 1 /\ AllFailed(outcomes) /\ sendPc # "idle") =>
        /\ sendPc # "succeeded"
        /\ Len(outcomes) <= max_retries
        /\ sendPc = "sending" => slept = Backoffs(Len(outcomes))
        /\ sendPc = "retrying" =>
              (Len(outcomes) < max_retries /\ slept = Backoffs(Len(outcomes)))
        /\ sendPc = "failed" =>
              /\ Len(outcomes) = max_retries
              /\ slept = Backoffs(max_retries - 1)
              /\ sendResult # None

C1_Witness ==
    /\ sendPc = "failed" /\ max_retries = 3
    /\ Len(outcomes) = 3 /\ AllFailed(outcomes)
    /\ outcomes[1].kind = "RequestException" /\ outcomes[3].status = 503
    /\ slept = <<1, 2>>

\* C2: an orchestrator constructed with note_storage = "auto", the Graph SDK importable
\* and a client id configured (and no constructor raising) has the OneNote store as
\* its active backend, and not the local store.
C2_AutoPrefersRemote ==
    (config.note_storage = "auto" /\ config.msgraph /\ config.client_id
        /\ initError = "none") =>
        (components.onenote /\ ~components.local_notes)

\* the transcription step of this run failed: no microphone to ask, an exception, or
\* nothing (None or the empty text) returned
TranscriptionStepFailed ==
    \/ stepKinds.transcribe \in {"not called", "raise"}
    \/ ~Truthy(transcription)

\* C3: when the transcription step of process_audio_file fails, raises or yields an
\* empty transcript, the run returns success = False with the error "Failed to
\* transcribe audio", and neither the summarizer nor the metadata extraction nor a
\* backend was called in that run.
C3_TranscriptionFailureIsFatal ==
    (op = "file" /\ pc \notin {"idle", "transcribe"} /\ TranscriptionStepFailed) =>
        /\ pc = "returned"
        /\ results.success = FALSE
        /\ results.error = <<"Failed to transcribe audio">>
        /\ results.note_created = FALSE
        /\ ~Called("summarize") /\ ~Called("_get_audio_metadata") /\ ~BackendCalled
        /\ backendReturn = None

C3_Witness ==
    /\ op = "file" /\ pc = "returned"
    /\ stepKinds.transcribe = "return" /\ transcription = << >>
    /\ components.summarizer /\ components.local_notes /\ create_note
    /\ results.error = <<"Failed to transcribe audio">>

\* the summarizer of this run gave no summary: it is not set, it raised, or it
\* returned the empty text
SummarizerGaveNothing ==
    \/ stepKinds.summarize \in {"not called", "raise"}
    \/ ~Truthy(summary)

\* the summary the fallback contract asks for
ContractFallback(t) ==
    IF Len(t) <= 500 THEN t ELSE SubSeq(t, 1, 500) \o <<".", ".", ".">>

\* C4: in process_audio_file, when the summarizer is unavailable, raises or returns
\* nothing, the summary of the result is the transcript unchanged if it has at most 500
\* characters and its first 500 characters followed by "..." otherwise, and the run
\* succeeds.
C4_FileFallbackSummary ==
    (op = "file" /\ pc \in {"note", "returned"} /\ ~TranscriptionStepFailed
        /\ SummarizerGaveNothing) =>
        /\ results.summary = ContractFallback(transcription)
        /\ pc = "returned" => results.success

C4_Witness ==
    /\ op = "file" /\ pc = "returned"
    /\ Len(transcription) = 501
    /\ stepKinds.summarize = "raise"
    /\ Len(results.summary) = 503
    /\ results.success

\* C5: in process_live_recording, when the summarizer is unavailable or fails, the
\* summary of the result is the transcript unchanged if it has at most 500 characters
\* and its first 500 characters followed by "..." otherwise.
C5_LiveFallbackSummary ==
    (op = "live" /\ pc \in {"note", "save", "cleanup", "returned"}
        /\ Truthy(transcription) /\ SummarizerGaveNothing) =>
        results.summary = ContractFallback(transcription)

\* note persistence was asked for and did not succeed: the active backend was called and
\* returned no location (it returned failure or raised), or no backend is active
PersistenceFailed ==
    /\ create_note
    /\ \/ HasBackend /\ BackendCalled /\ backendReturn = None
       \/ ~HasBackend

\* C6: a run of process_audio_file or process_live_recording whose transcription
\* succeeded and whose note persistence did not succeed returns success = True and
\* note_created = False, with transcription and summary populated.
C6_PersistenceFailureNotFatal ==
    (Returned /\ Truthy(transcription) /\ PersistenceFailed) =>
        /\ results.success = TRUE
        /\ results.note_created = FALSE
        /\ results.transcription = transcription
        /\ Truthy(results.summary)

C6_Witness ==
    /\ op = "live" /\ pc = "returned"
    /\ components.onenote /\ create_note
    /\ Called("create_note_page") /\ backendReturn = None
    /\ results.success /\ ~results.note_created

\* C7: no run raises to its caller, and every run that returns without success returns
\* success = False with a non-empty error message.
C7_NeverRaises ==
    /\ pc # "raised"
    /\ Returned =>
          /\ "success" \in DOMAIN results
          /\ ~results.success =>
                ("error" \in DOMAIN results /\ Truthy(results.error))

C7_Witness ==
    /\ op = "live" /\ pc = "returned"
    /\ stepKinds.transcribe = "raise"
    /\ ~results.success
    /\ results.error \in ExcMessages

ResultFields ==
    {"success", "transcription", "summary", "note_created", "processing_time", "error"}

\* C8: every result returned carries the six fields success, transcription, summary,
\* note_created, processing_time and error.
C8_FullyPopulated == Returned => DOMAIN results = ResultFields

\* C9: in every result returned, success = True implies that transcription is present
\* and non-empty.
C9_SuccessHasTranscription ==
    (Returned /\ results.success) =>
        ("transcription" \in DOMAIN results /\ Truthy(results.transcription))

C9_Witness ==
    /\ Returned /\ results.success
    /\ Len(results.transcription) = 1
    /\ ~create_note

\* C10: in every result returned, note_created = True implies that note creation was
\* asked for, a backend is active, it was called in this run and it returned a location
\* (a page identifier from the OneNote store, a file path from the local store).
C10_NoteCreatedHasLocation ==
    (Returned /\ "note_created" \in DOMAIN results /\ results.note_created) =>
        /\ create_note
        /\ HasBackend
        /\ BackendCalled
        /\ backendReturn # None
        /\ backendReturn = IF components.onenote THEN RemoteLocation ELSE LocalLocation

C10_Witness ==
    /\ op = "file" /\ pc = "returned"
    /\ results.note_created
    /\ components.onenote
    /\ backendReturn = RemoteLocation


\* the number of calls of this run that went to a backend
BackendCallCount ==
    Cardinality({i \in 1..Len(calls) :
                    calls[i] \in {"onenote.create_transcription_note",
                                  "local_notes.create_note"}})

\* C11: at most one of the OneNote store and the local store is active in an
\* orchestrator, and a run calls at most one backend, at most once, and only the
\* active one.
C11_SingleBackend ==
    /\ ~(components.onenote /\ components.local_notes)
    /\ BackendCallCount <= 1
    /\ Called("onenote.create_transcription_note") => components.onenote
    /\ Called("local_notes.create_note") => components.local_notes

C11_Witness ==
    /\ Returned /\ results.success /\ results.note_created
    /\ components.local_notes /\ ~components.onenote
    /\ BackendCallCount = 1 /\ Called("local_notes.create_note")


\* the remote backend can be used: the SDK is importable and a client id is configured
RemoteAvailable == config.msgraph /\ config.client_id

\* C12: an orchestrator constructed with mode auto while the remote backend is not
\* available or not credentialed has the local store active (the local store's own
\* construction not having failed), and a successful run with create_note persists
\* through the local store.
C12_AutoFallsBackToLocal ==
    (config.note_storage = "auto" /\ ~RemoteAvailable /\ initError # "storage") =>
        /\ components.local_notes
        /\ (Returned /\ create_note /\ results.success) => Called("local_notes.create_note")

C14_LocalRegardless ==
    (config.note_storage = "local" /\ initError # "storage") => components.local_notes


\* C15: once a live run has returned or was cancelled, no temporary audio file it
\* created is left; the file of process_live_recording exists only from its creation
\* to the end of the note step, and the recorder's own file only while
\* record_and_transcribe saves and transcribes.
C15_ScopedCleanup ==
    /\ pc \in {"idle", "returned", "cancelled"} => tempFiles = {}
    /\ TempFile \in tempFiles => (op = "live" /\ pc \in {"save", "cleanup"})
    /\ RecorderTempFile \in tempFiles => (op = "live" /\ pc = "record")
    /\ tempFiles \subseteq created

C15_Witness ==
    /\ op = "live" /\ pc = "cancelled"
    /\ created = {RecorderTempFile, TempFile}
    /\ tempFiles = {}


\* the identifiers returned for one kind of container, parent and name
ReturnedFor(kind, parent, name) ==
    {r[4] : r \in {q \in returned : q[1] = kind /\ q[2] = parent /\ q[3] = name}}

\* C16: all get_or_create_notebook calls with one name that return an identifier
\* return the same one, and the service holds at most one notebook of a name;
\* likewise for get_or_create_section with one name under one notebook.
C16_IdempotentContainers ==
    /\ \A name \in NotebookNames :
          /\ Cardinality(ReturnedFor("notebook", NoId, name)) <= 1
          /\ Cardinality({n \in onenoteStore.notebooks : n.name = name}) <= 1
    /\ \A nb \in 1..(MaxRemoteIds + 1), name \in SectionNames :
          /\ Cardinality(ReturnedFor("section", nb, name)) <= 1
          /\ Cardinality({s \in onenoteStore.sections :
                             s.notebook = nb /\ s.name = name}) <= 1


\* C18: create_transcription_note returns True exactly when the notebook step, the
\* section step and the page step each gave an identifier, in that order (the section
\* under that notebook, the page under that section); it returns False when a step
\* gave none, and no step is attempted after one that gave none.
C18_NoteResult ==
    lastNote.ids # << >> =>
        LET ids == lastNote.ids IN
        /\ Len(ids) <= Len(StepNames)
        /\ \A i \in 1..(Len(ids) - 1) : ids[i] # NoId
        /\ Len(ids) < Len(StepNames) => ids[Len(ids)] = NoId
        /\ lastNote.result <=> (Len(ids) = Len(StepNames) /\ \A i \in 1..Len(ids) : ids[i] # NoId)
        /\ lastNote.result =>
              /\ [id |-> ids[1], name |-> DefaultNotebook] \in onenoteStore.notebooks
              /\ [id |-> ids[2], notebook |-> ids[1], name |-> DefaultSection]
                    \in onenoteStore.sections
              /\ [id |-> ids[3], section |-> ids[2]] \in onenoteStore.pages

C18_Witness ==
    /\ lastNote.ids # << >>
    /\ ~lastNote.result
    /\ Len(lastNote.ids) = 2 /\ lastNote.ids[1] # NoId /\ lastNote.ids[2] = NoId
    /\ onenoteStore.pages # {}


\* C17: every create_notebook with one name, called directly or by create_note,
\* returns the same path; the registry holds the entry of that notebook under its one
\* key, with the creation time of its first registration and the count of the notes
\* created in it since: a repeated creation resets neither.
C17_LocalNotebookIdempotent ==
    /\ \A p, q \in notebookPaths : p[1] = q[1] => p[2] = q[2]
    /\ \A p \in notebookPaths :
          LET key == SanitizeFilename(p[1]) IN
          /\ key \in DOMAIN metadata.notebooks
          /\ metadata.notebooks[key].path = p[2]
          /\ p[2] \in directories
          /\ Cardinality({k \in DOMAIN metadata.notebooks :
                             metadata.notebooks[k].path = p[2]}) = 1
    /\ DOMAIN metadata.notebooks = DOMAIN registered
    /\ \A k \in DOMAIN metadata.notebooks :
          /\ metadata.notebooks[k].created = registered[k].created
          /\ metadata.notebooks[k].note_count = registered[k].notes

C17_Witness ==
    /\ clock >= 3
    /\ Cardinality(DOMAIN metadata.notebooks) = 1
    /\ \E k \in DOMAIN metadata.notebooks :
          /\ metadata.notebooks[k].note_count = 1
          /\ metadata.notebooks[k].created = 1
    /\ noteFiles # {}
    /\ \E p \in noteFiles : p.writer = 2


\* C19: the step that ends a send in success leaves the conversation id of the session
\* equal to the response's if the response has one and as it was otherwise, records
\* the prompt type of this call and the size of the response's result as the last
\* interaction, touches nothing else of the session, and returns the decoded response
\* as it is.
C19_SuccessUpdatesSession ==
    [][(sendPc = "sending" /\ sendPc' = "succeeded") =>
          LET body == outcomes'[Len(outcomes')].body IN
          /\ session_context'.conversation_id =
                IF body.has_conversation_id THEN body.conversation_id
                ELSE session_context.conversation_id
          /\ session_context'.last_interaction = <<sendPrompt, Len(body.result)>>
          /\ session_context'.user_preferences = session_context.user_preferences
          /\ sendResult' = <<"result", body>>]_vars

C19_Witness ==
    /\ sendPc = "succeeded"
    /\ outcomes[Len(outcomes)].body = NoBody
    /\ session_context.conversation_id = <<"conv-2">>
    /\ session_context.last_interaction = <<"question", 0>>
    /\ sendResult = <<"result", NoBody>>

\* attempt i of the running send was treated as failed: the loop went on after it, or
\* the send ended in failure with it
TreatedAsFailed(i) ==
    i < Len(outcomes) \/ sendPc \in {"sending", "retrying", "failed", "cancelled"}

\* C20: an attempt is treated as failed exactly when it ended in a transport exception
\* or a response whose status is not 2xx; a 2xx response ends the send in success.
C20_FailedExactlyWhenNot2xx ==
    sendPc # "idle" =>
        \A i \in 1..Len(outcomes) : TreatedAsFailed(i) <=> FailedOutcome(outcomes[i])


\* what get_session_info returns on a client just constructed
FreshSessionInfo ==
    [conversation_id |-> None, last_interaction |-> None, user_preferences |-> << >>,
     total_interactions |-> 0, has_last_activity |-> FALSE]

\* the running send was entered after the last write to the session
EnvelopeIsCurrent == sendPc = "sending" /\ outcomes = << >>

\* C21: after clear_session, whatever the session held, the session equals that of a
\* client just constructed and get_session_info shows it; the request of a send
\* entered next has no conversation_id.
C21_ClearResetsSession ==
    lastSessionOp = "clear" =>
        /\ session_context = EmptySession
        /\ GetSessionInfo(session_context) = FreshSessionInfo
        /\ EnvelopeIsCurrent => ~envelope.has_conversation_id

\* the last send carried a conversation id in its request and succeeded, and the
\* session was cleared after it
C21_Witness ==
    /\ lastSessionOp = "clear"
    /\ sendPc = "idle"
    /\ envelope.has_conversation_id
    /\ sendResult # None /\ Len(sendResult) = 2 /\ sendResult[1] = "result"
    /\ session_context = EmptySession


\* the prompts built without a given type
AutoTyped == {p \in {prompt, previous} : p.kind = "prompt" /\ p.given = NoType}

\* the classification order of the contract, on the lower-cased text
OrderedType(text_lower) ==
    CASE AnyIn(QuestionWords, text_lower) -> "question"
      [] ~AnyIn(QuestionWords, text_lower) /\ AnyIn(CommandWords, text_lower)
            /\ AnyIn(CodeWords, text_lower) -> "code_request"
      [] ~AnyIn(QuestionWords, text_lower) /\ AnyIn(CommandWords, text_lower)
            /\ ~AnyIn(CodeWords, text_lower) -> "command"
      [] OTHER -> "general"

\* C22: without a given type, the type of a prompt is one of the four, is the one the
\* classification order gives for its text (question before code_request before
\* command before general), and two prompts built from the same text have the same
\* type and the same confidence whatever the session was when each was built.
C22_ClassificationDeterministic ==
    /\ \A p \in AutoTyped :
          /\ p.prompt_type \in PromptTypes
          /\ p.prompt_type = OrderedType(Lower(p.transcription))
          /\ p.transcription = "What is the capital of France?" => p.prompt_type = "question"
          /\ p.transcription = "Please write a function to reverse a string"
                => p.prompt_type = "code_request"
    /\ \A p, q \in AutoTyped :
          p.transcription = q.transcription =>
              (p.prompt_type = q.prompt_type /\ p.confidence = q.confidence)

\* the same text, classified under two different sessions, where a question word and
\* a command word and a code word are all present
C22_Witness ==
    /\ prompt.kind = "prompt" /\ previous.kind = "prompt"
    /\ prompt.given = NoType /\ previous.given = NoType
    /\ prompt.transcription = "Can you help me write a Python function?"
    /\ previous.transcription = prompt.transcription
    /\ prompt.session_id # previous.session_id
    /\ prompt.prompt_type = "question"


\* C23: whatever table the client was constructed with, a prompt of a category without
\* an entry in the table has the (stripped) transcription as its text, and a prompt
\* of a category with an entry has the transcription substituted into that entry.
C23_TemplateFallback ==
    prompt.kind # "none" =>
        /\ prompt.kind = "prompt"
        /\ prompt.text =
              IF prompt.prompt_type \in DOMAIN prompt_templates
                THEN prompt_templates[prompt.prompt_type] \o StripSpaces(prompt.transcription)
                ELSE StripSpaces(prompt.transcription)


\* C24: two create_note calls with the same title, notebook, section and format at
\* different seconds wrote to different paths, and the file of the earlier one still
\* holds what that call wrote.
C24_DistinctSecondsDistinctFiles ==
    \A c, d \in noteCalls :
        (/\ c.writer < d.writer
         /\ c.title = d.title /\ c.notebook = d.notebook /\ c.section = d.section
         /\ c.format = d.format
         /\ c.second # d.second) =>
            /\ c.path # d.path
            /\ \E f \in noteFiles : f.path = c.path /\ f.writer # d.writer

C24_Witness ==
    \E c, d \in noteCalls :
        /\ c.writer < d.writer
        /\ c.title = d.title /\ c.notebook = d.notebook /\ c.section = d.section
        /\ c.format = d.format
        /\ c.second # d.second
        /\ [path |-> c.path, writer |-> c.writer] \in noteFiles
        /\ [path |-> d.path, writer |-> d.writer] \in noteFiles


\* C25: whenever a run of process_audio_file or process_live_recording has persisted a
\* note, the summary handed to the backend is the summary of the returned result,
\* also when the summarizer gave nothing and the truncated transcription is used.
C25_StoredSummaryIsReported ==
    (Returned /\ "note_created" \in DOMAIN results /\ results.note_created) =>
        noteSummary = results.summary


\* C26: when the caller cancels a send during the backoff wait between two attempts, the
\* retry loop makes no further delivery attempt: the attempts of the send stay the ones
\* made before the cancellation
C26_NoAttemptAfterCancel ==
    (cancel.requested /\ cancel.during = "retrying") =>
        Len(outcomes) = cancel.attempts


\* the steps of the state diagram; an interrupt of the caller is the one other way out
SendStep ==
    \/ sendPc = "idle" /\ sendPc' = "sending" /\ max_retries > 0
    \/ sendPc = "idle" /\ sendPc' = "failed" /\ max_retries = 0 /\ outcomes' = << >>
    \/ sendPc = "sending" /\ sendPc' \in {"succeeded", "retrying", "failed"}
                          /\ Len(outcomes') = Len(outcomes) + 1
    \/ sendPc = "retrying" /\ sendPc' = "sending"
    \/ sendPc \in {"succeeded", "failed", "cancelled"} /\ sendPc' = "idle"
    \/ sendPc \in {"sending", "retrying"} /\ sendPc' = "cancelled"
                                           /\ cancel'.kind = "interrupt"

Ended == sendPc \in {"succeeded", "failed"}

AttemptsBounded ==
    /\ Len(outcomes) <= max_retries
    /\ sendPc \in {"failed", "succeeded"} /\ max_retries = 0 => outcomes = << >>
    /\ sendPc \in {"sending", "retrying"} => attempt < max_retries
    /\ sendPc \in {"idle", "sending", "retrying", "succeeded", "failed", "cancelled"}

\* C27: a send goes Idle -> Sending -> {Succeeded, Retrying, Failed}, Retrying goes back
\* to Sending; it makes at most max_retries delivery attempts and, unless the caller
\* interrupts it, ends in Succeeded or Failed; with max_retries = 0 it ends in Failed
\* without any delivery attempt.
C27_SendLifecycle ==
    /\ [][sendPc' # sendPc => SendStep]_vars
    /\ []AttemptsBounded
    /\ (sendPc \in {"sending", "retrying"}) ~> (Ended \/ sendPc = "cancelled")

C27_Witness ==
    /\ sendPc = "failed"
    /\ max_retries = 3
    /\ Len(outcomes) = 3
    /\ ~cancel.requested


\* C28: no step of a send that does not end it in success changes the session, so a send
\* that ends in failure leaves conversation_id, last_interaction and user_preferences as
\* they were before the call; the session changes only with a successful attempt (or
\* with clear_session between sends).
C28_FailureKeepsSession ==
    [][/\ (sendPc' \in {"sending", "retrying", "failed", "cancelled"}) =>
              session_context' = session_context
       /\ session_context' # session_context =>
              \/ sendPc = "sending" /\ sendPc' = "succeeded"
              \/ sendPc = "idle" /\ lastSessionOp' = "clear"]_vars

C28_Witness ==
    /\ sendPc = "failed"
    /\ Len(outcomes) = 2
    /\ outcomes[1].kind = "RequestException"
    /\ outcomes[2].kind = "response"
    /\ session_context.conversation_id = <<"conv-1">>
    /\ session_context.last_interaction # None


\* the step is a successful attempt whose response supplies the conversation id c
StoresId(c) ==
    /\ sendPc = "sending" /\ sendPc' = "succeeded"
    /\ outcomes'[Len(outcomes')].body.has_conversation_id
    /\ outcomes'[Len(outcomes')].body.conversation_id = c

\* C29: the stored conversation id changes only when a successful response supplies an
\* id (to that id) or with clear_session (to none), and every request built carries
\* exactly the stored id: conversation_id = c while c is stored, and no conversation_id
\* field before any id is stored and after clear_session.
C29_EnvelopeCarriesStoredId ==
    [][/\ session_context'.conversation_id # session_context.conversation_id =>
              \/ StoresId(session_context'.conversation_id)
              \/ /\ lastSessionOp' = "clear"
                 /\ session_context'.conversation_id = None
       /\ (sendPc = "idle" /\ sendPc' # "idle") =>
              /\ envelope'.has_conversation_id <=> session_context.conversation_id # None
              /\ envelope'.conversation_id = session_context.conversation_id
              /\ lastSessionOp \in {"construct", "clear"} => ~envelope'.has_conversation_id]_vars

\* a send entered after the one that stored conv-1 has built its request, which
\* carries conv-1
C29_Witness ==
    /\ sendPc = "sending"
    /\ outcomes = << >>
    /\ envelope = [has_conversation_id |-> TRUE, conversation_id |-> <<"conv-1">>]
    /\ session_context.last_interaction # None
    /\ lastSessionOp = "update"
    /\ sendResult = None


AllDone == \A t \in Senders : senders[t].pc = "done"

\* the session holds what the send of thread t wrote
HoldsSendOf(t) ==
    /\ lastWriter.last_interaction = t
    /\ session_context.last_interaction =
           <<senders[t].prompt_type, Len(senders[t].body.result)>>
    /\ senders[t].body.has_conversation_id =>
           session_context.conversation_id = senders[t].body.conversation_id

\* C30: when several sends on one client have all succeeded and finished, the session
\* holds the conversation id and the last interaction of one and the same send, and a
\* stored conversation id is always one that a response returned.
C30_LastWriterWins ==
    /\ AllDone => \E t \in Senders : HoldsSendOf(t)
    /\ session_context.conversation_id # None =>
           \E t \in Senders :
               /\ senders[t].pc \in {"stored", "done"}
               /\ senders[t].body.has_conversation_id
               /\ senders[t].body.conversation_id = session_context.conversation_id


\* C31: get_session_info reports as total_interactions the number of sends that have
\* succeeded since the construction or the last clear_session, and a last_activity
\* exactly when there has been one: with none the count is 0 and there is no
\* last_activity, and once a send has succeeded the count is at least 1 and
\* last_activity is set.
C31_TotalInteractionsCounts ==
    /\ lastSessionOp \in {"construct", "clear"} =>
           /\ GetSessionInfo(session_context).total_interactions = 0
           /\ ~GetSessionInfo(session_context).has_last_activity
    /\ lastSessionOp = "update" =>
           /\ GetSessionInfo(session_context).total_interactions >= 1
           /\ GetSessionInfo(session_context).has_last_activity


\* the step of a run a collaborator call belongs to: 1 transcription, 2 summarization,
\* 3 metadata extraction and note persistence
StepOf(name) ==
    IF name \in {"transcribe_recording", "record_and_transcribe"} THEN 1
    ELSE IF name = "summarize" THEN 2
    ELSE 3

CallsOfStep(n) == {i \in 1..Len(calls) : StepOf(calls[i]) = n}

\* C32: within one run the transcription call comes first and is over before the
\* summarization call, which is over before metadata extraction and note persistence;
\* each is made at most once, one after the other, and the summarizer is called only
\* with a non-empty transcript.
C32_StepsInOrder ==
    op \in {"file", "live"} =>
        /\ \A i, j \in 1..Len(calls) : i < j => StepOf(calls[i]) <= StepOf(calls[j])
        /\ Cardinality(CallsOfStep(1)) <= 1
        /\ Cardinality(CallsOfStep(2)) <= 1
        /\ CallsOfStep(2) # {} =>
               /\ CallsOfStep(1) # {}
               /\ Truthy(transcription)
               /\ results.transcription = transcription
               /\ pc \notin {"transcribe", "capture", "record", "summarize"}
        /\ CallsOfStep(3) # {} =>
               /\ CallsOfStep(1) # {}
               /\ Truthy(transcription)
               /\ Truthy(results.summary)
               /\ pc \notin {"transcribe", "capture", "record", "summarize", "note"}

\* a live run has called the transcription, the summarizer and the backend
C32_Witness ==
    /\ op = "live"
    /\ pc = "returned"
    /\ Called("record_and_transcribe")
    /\ Called("summarize")
    /\ BackendCalled


\* C33: the result a run returns has processing_time equal to the time that passed from
\* the entry of the call to its return, on the success path, on the path of a caught
\* exception and on the path of a failed transcription.
C33_ProcessingTimeIsElapsed ==
    (Returned /\ "processing_time" \in DOMAIN results) =>
        results.processing_time = elapsed


\* C34: a local store operation that changes the metadata in memory (a notebook
\* registered, a note counted) leaves metadata.json equal to the metadata in memory; a
\* store constructed on a missing or unparsable metadata.json has the default metadata.
C34_MetadataFileFollows ==
    /\ [][metadata' # metadata => metadataFile' = Dumped(metadata')]_vars
    /\ [](clock = 0 => metadata = DefaultMetadata)


\* C35: with several local stores on one base directory and no lock, metadata.json is
\* the in-memory metadata of the instance that saved last, without merge (so its
\* note_count can be smaller than the number of notes created).
C35_LastSaverWins ==
    lastSaver # 0 => metadataFile = Dumped(stores[lastSaver].metadata)


\* C36: on a store started on a base directory without notes and used by one instance,
\* the total note_count of the metadata equals the number of note files on disk (the
\* total_notes of get_stats).
C36_NoteCountIsFileCount ==
    metadata.note_count = Cardinality({f.path : f \in noteFiles})


Whitespace == {" ", "\t"}

\* C37: for every name the slug is non-empty and at most 100 characters long, contains
\* none of the characters < > : " / \ | ? *, has no dot and no whitespace at its start
\* or end, and is "untitled" when nothing else remains.
C37_SlugIsSafe ==
    LET s == slugged.slug IN
    slugged.applied >= 1 =>
    /\ s # << >>
    /\ Len(s) <= SafeNameLimit
    /\ \A i \in 1..Len(s) : s[i] \notin InvalidChars
    /\ s[1] \notin Whitespace \cup {"."}
    /\ s[Len(s)] \notin Whitespace \cup {"."}
    /\ (\A i \in 1..Len(slugged.name) : slugged.name[i] \in {" ", "."}) => s = Untitled


\* C38: the slug of a slug is that slug, so a registry key, given as a notebook name,
\* leads to the directory and to the registry entry of the name it was made from.
C38_SlugIdempotent ==
    slugged.applied = 2 =>
        /\ slugged.slug = slugged.name
        /\ NotebookPath(slugged.name) = <<"notes">> \o slugged.name
        /\ RegisterNotebook([DefaultMetadata EXCEPT !.notebooks = [k \in {slugged.name} |->
                                 [name |-> slugged.name, created |-> 0, note_count |-> 0,
                                  path |-> <<"notes">> \o slugged.name]]],
                            slugged.name, 1).notebooks
               = [k \in {slugged.name} |->
                     [name |-> slugged.name, created |-> 0, note_count |-> 0,
                      path |-> <<"notes">> \o slugged.name]]


\* C39: on an orchestrator without a microphone component, process_audio_file returns
\* success False with the error "Failed to transcribe audio" whatever the audio path,
\* calls no collaborator (no transcription, no summarization) and persists nothing.
C39_NoMicrophoneNoTranscript ==
    (op = "file" /\ ~components.microphone /\ pc # "transcribe") =>
        /\ pc = "returned"
        /\ results.success = FALSE
        /\ results.error = <<"Failed to transcribe audio">>
        /\ results.transcription = None
        /\ results.summary = None
        /\ results.note_created = FALSE
        /\ calls = << >>
        /\ backendReturn = None

\* the orchestrator has a summarizer and a backend, the caller asked for a note, and
\* the run has returned
C39_Witness ==
    /\ op = "file" /\ pc = "returned"
    /\ ~components.microphone
    /\ components.summarizer
    /\ HasBackend
    /\ create_note

=============================================================================
